---- MODULE Spec2Model ----
(***************************************************************************)
(* A model of the numeric core of canopy.py:                               *)
(*   - the snap-raster cell-size check (class check_snap) and the tile     *)
(*     loop of reproject_naip_tiles that calls it;                         *)
(*   - the training-tile objective function (objective_function,           *)
(*     __unweighted_ob, __weighted_ob);                                    *)
(*   - the gap scan of class Check_gaps;                                   *)
(*   - convert_afe_to_canopy_tif and its three stages, on the files of the *)
(*     Inputs and Outputs folders of the selected regions, and the stages  *)
(*     called again on the same disk;                                      *)
(*   - correct_inverted_canopy_tif and convert_canopy_tif_to_shp;          *)
(*   - generate_gtpoints and update_gtpoints.                              *)
(*                                                                         *)
(* Cell sizes are fixed-point numbers in units of 0.00001 ground units, so *)
(* that the tolerance 0.0001 of check_snap is the integer 10.  Fractions   *)
(* of the objective function are exact fixed-point numbers too (see Unit   *)
(* and ScoreDen below); floating-point rounding is not modelled.           *)
(***************************************************************************)
EXTENDS Integers, Sequences, FiniteSets, TLC

(***************************************************************************)
(* Bounds of the model.                                                    *)
(***************************************************************************)
\* Largest number of NAIP tiles of a region / of candidate tiles.
MaxTiles == 2
\* Largest number of cells of one land-cover class in a raster array.
MaxCount == 1

GridRows == 3

GridCols == 3

MaxNoData == 4

MaxFiles == 2

VARIABLES
    \* ---- check_snap and reproject_naip_tiles ----
    snap_size,     \* (meanCellWidth, meanCellHeight) of the snap raster
    naip_size,     \* sequence: cell size of each NAIP tile, in sorted(cur2) order
    exists,        \* indices k whose reprojected output r<k>.tif is on disk
    pc,            \* "idle", "loop", "completed" or "exited"
    idx,           \* position of the tile loop (1-based), the next tile to handle
    passed,        \* indices for which check_snap returned to its caller
    projected,     \* indices for which ProjectRaster_management was called
    stdout,        \* messages printed so far
    exit_code,     \* 0 while the process lives, the sys.exit status afterwards
    \* ---- objective_function ----
    region_arr,    \* np.unique(region_arr): value -> count, NoData included
    tile_arr,      \* OBJECTID -> np.unique(tile_arr) of that tile
    name_list,     \* OBJECTIDs in cursor order
    method,        \* the method argument
    ob_pc,         \* "idle", "returned" or "raised"
    ob_error,      \* "none" or the name of the exception raised
    region_lc,     \* the region histogram after `del region_lc[nan]`
    out_index,     \* __unweighted_ob: out_index when its loop ends;
                   \* __weighted_ob: the out_index of every weight, in turn
    training_tile, \* what the helper returned: a dict as a sequence of pairs
    ob_result,     \* what objective_function itself returned: <<"None">>
                   \* or <<"dict", d>>
    unit,          \* common denominator of the fractions of this request
    phy_sel,       \* where clause of the selection on phyregs_layer
    naip_sel,      \* the selection on naipqq_layer
    ob_writes,     \* files the engine wrote during the call, in order
    \* ---- Check_gaps ----
    region_array,  \* self.region_array: cell <<i, j>> (0-based) -> value
    gap_pc,        \* "new", "scan", "done" or "raised"
    index_ij,      \* zip(index_i, index_j): the cells np.where returned
    gap_i,         \* the loop variable i of check (0-based)
    gap_seen,      \* per cell examined: the cell and val_dict.get(nodata)
    gap_stdout,    \* messages printed by check
    \* ---- convert_afe_to_canopy_tif and its three stages ----
    files,         \* the files on disk: <<region, kind, tile>>
    pipe_size,     \* <<region, tile>> -> cell size of the tile's rasters
    verbosity,     \* config.verbosity
    pipe_pc,       \* "idle", the stage that runs, "returned", "raised"
                   \* or "exited"
    pipe_region,   \* position of the stage's region cursor (1-based)
    pipe_log,      \* stage events and engine calls so far, in order
    mosaic_inputs, \* region -> the input_rasters given to the mosaic tool
    pipe_error,    \* the exception that ended the call, if any
    pipe_stdout,   \* lines printed so far
    \* ---- a stage of the conversion called again ----
    runs,          \* the stage calls made so far: stage, files before,
                   \* engine calls, how the call ended
    \* ---- correct_inverted_canopy_tif and convert_canopy_tif_to_shp ----
    post_dirs,     \* regions whose Outputs folder exists
    canopy_tif,    \* region -> cells of canopy_<year>_<region>.tif
    corrected_tif, \* region -> cells of corrected_canopy_<year>_<region>.tif
    canopy_shp,    \* region -> the canopy shapefile: source and fields
    post_calls,    \* number of calls made so far
    post_log,      \* engine calls so far, in order
    post_error,    \* "none" or the exception that ended the last call
    \* ---- generate_gtpoints and update_gtpoints ----
    gt_fn,         \* "generate" or "update"
    gt_args,       \* min_area_sqkm, max_area_sqkm, min_points, max_points
    area_sqkm,     \* the area of the region of the cursor row
    inverted,      \* whether the region is in inverted_phyreg_ids
    ras_a,         \* arcpy.RasterToNumPyArray(ras): <<row, col>> -> value
    gt_pc,         \* "called", "count", "create", "points", "done", "raised"
    point_count,   \* <<>> before it is computed, <<n>> afterwards
    gt_points,     \* the rows of the point shapefile handled so far
    gt_todo,       \* rows of the update cursor still to come
    gt_error       \* "none" or the exception raised

snapvars == <<snap_size, naip_size, exists, pc, idx, passed, projected,
              stdout, exit_code>>
obvars == <<region_arr, tile_arr, name_list, method, ob_pc, ob_error,
            region_lc, out_index, training_tile, ob_result, unit, phy_sel,
            naip_sel, ob_writes>>
gapvars == <<region_array, gap_pc, index_ij, gap_i, gap_seen, gap_stdout>>
pipevars == <<files, pipe_size, verbosity, pipe_pc, pipe_region, pipe_log,
              mosaic_inputs, pipe_error, pipe_stdout>>
cachevars == <<runs>>
postvars == <<post_dirs, canopy_tif, corrected_tif, canopy_shp, post_calls,
              post_log, post_error>>
gtvars == <<gt_fn, gt_args, area_sqkm, inverted, ras_a, gt_pc, point_count,
            gt_points, gt_todo, gt_error>>
latervars == <<cachevars, postvars, gtvars>>
vars == <<snapvars, obvars, gapvars, pipevars, latervars>>

(***************************************************************************)
(* check_snap                                                              *)
(***************************************************************************)
\* The literal 0.0001 passed to __check_float, in units of 0.00001.
Tolerance == 10

Abs(x) == IF x < 0 THEN -x ELSE x

\* Cell sizes the rasters are drawn from (0.6 is 60000): equal to the snap
\* raster's, off by less than, exactly, and more than the tolerance.
SnapSizes == {60000, 60001}
CellSizes == {59989, 60000, 60010, 60011}

\* check_snap.__check_float
check_float(x1, x2, tolerance) == Abs(x1 - x2) <= tolerance

\* The condition under which __check_snap raises, were it "either axis fails".
snap_raises_either(snap, in) ==
    LET check_x == check_float(snap[1], in[1], Tolerance)
        check_y == check_float(snap[2], in[2], Tolerance)
    IN  check_y = FALSE \/ check_x = FALSE

\* check_snap.__check_snap up to the raise: TRUE when ValueError is raised.
snap_raises(snap, in) ==
    LET check_x == check_float(snap[1], in[1], Tolerance)
        check_y == check_float(snap[2], in[2], Tolerance)
    IN  check_y = FALSE /\ check_x = FALSE

SnapMessage == "Invlaid snapraster cellsize"

\* An except clause that prints and returns to the caller.
snap_handler_returns(raised) == [exits |-> FALSE, code |-> 0]

\* The except clause of __check_snap: print, then sys.exit(1).
snap_handler(raised) ==
    IF raised THEN [exits |-> TRUE, code |-> 1]
              ELSE [exits |-> FALSE, code |-> 0]

\* check_snap(input_raster, snaprast_path): the constructor runs the check.
check_snap(in, snap) == snap_handler(snap_raises(snap, in))

(***************************************************************************)
(* reproject_naip_tiles: the loop over the tiles of the selected regions.  *)
(***************************************************************************)
ObIdle ==
    /\ region_arr = <<>> /\ tile_arr = <<>> /\ name_list = <<>>
    /\ method = "" /\ ob_pc = "idle" /\ ob_error = "none"
    /\ region_lc = <<>> /\ out_index = <<>> /\ training_tile = <<>>
    /\ ob_result = <<"None">> /\ unit = 1
    /\ phy_sel = "prior" /\ naip_sel = [clause |-> "prior", id |-> 0]
    /\ ob_writes = <<>>

GapIdle ==
    /\ region_array = <<>> /\ gap_pc = "unused" /\ index_ij = <<>>
    /\ gap_i = 0 /\ gap_seen = <<>> /\ gap_stdout = <<>>

NoError == [type |-> "none", region |-> 0, missing |-> <<>>]

PipeIdle ==
    /\ files = {} /\ pipe_size = <<>> /\ verbosity = 0
    /\ pipe_pc = "unused" /\ pipe_region = 1 /\ pipe_log = <<>>
    /\ mosaic_inputs = <<>> /\ pipe_error = NoError /\ pipe_stdout = <<>>

CacheIdle == runs = <<>>

PostIdle ==
    /\ post_dirs = {} /\ canopy_tif = <<>> /\ corrected_tif = <<>>
    /\ canopy_shp = <<>> /\ post_calls = 0 /\ post_log = <<>>
    /\ post_error = "none"

GtIdle ==
    /\ gt_fn = "" /\ gt_args = <<>> /\ area_sqkm = 0 /\ inverted = FALSE
    /\ ras_a = <<>> /\ gt_pc = "unused" /\ point_count = <<>>
    /\ gt_points = <<>> /\ gt_todo = 0 /\ gt_error = "none"

LaterIdle == CacheIdle /\ PostIdle /\ GtIdle

InitSnap ==
    /\ snap_size \in SnapSizes \X SnapSizes
    /\ \E n \in 0..MaxTiles :
         /\ naip_size \in [1..n -> CellSizes \X CellSizes]
         /\ exists \in SUBSET (1..n)
    /\ pc = "idle" /\ idx = 1 /\ passed = {} /\ projected = {}
    /\ stdout = <<>> /\ exit_code = 0
    /\ ObIdle
    /\ GapIdle
    /\ PipeIdle
    /\ LaterIdle

\* Entry: selections made, cursor opened on the region's tiles.
ReprojectStart ==
    /\ pc = "idle"
    /\ pc' = "loop"
    /\ UNCHANGED <<snap_size, naip_size, exists, idx, passed, projected,
                   stdout, exit_code>>
    /\ UNCHANGED <<obvars, gapvars, pipevars, latervars>>

\* One iteration of `for row2 in sorted(cur2)`: check_snap, then project
\* the tile unless its output exists.
ReprojectTile ==
    /\ pc = "loop" /\ idx <= Len(naip_size)
    /\ LET r == check_snap(naip_size[idx], snap_size)
       IN  IF r.exits
           THEN /\ pc' = "exited"
                /\ exit_code' = r.code
                /\ stdout' = Append(stdout, SnapMessage)
                /\ UNCHANGED <<idx, passed, projected, exists>>
           ELSE /\ passed' = passed \cup {idx}
                /\ IF idx \notin exists
                   THEN /\ projected' = projected \cup {idx}
                        /\ exists' = exists \cup {idx}
                   ELSE UNCHANGED <<projected, exists>>
                /\ idx' = idx + 1
                /\ UNCHANGED <<pc, exit_code, stdout>>
    /\ UNCHANGED <<snap_size, naip_size>>
    /\ UNCHANGED <<obvars, gapvars, pipevars, latervars>>

\* Cursor exhausted: clear the selections and print 'Completed'.
ReprojectDone ==
    /\ pc = "loop" /\ idx > Len(naip_size)
    /\ pc' = "completed"
    /\ stdout' = Append(stdout, "Completed")
    /\ UNCHANGED <<snap_size, naip_size, exists, idx, passed, projected,
                   exit_code>>
    /\ UNCHANGED <<obvars, gapvars, pipevars, latervars>>

NextSnap == ReprojectStart \/ ReprojectTile \/ ReprojectDone

SpecSnap == InitSnap /\ [][NextSnap]_vars

(***************************************************************************)
(* Claims about check_snap (checked under SpecSnap).                       *)
(***************************************************************************)
\* The check has been run on tile k.
Checked(k) == k \in passed \/ (pc = "exited" /\ k = idx)
OffX(k) == Abs(snap_size[1] - naip_size[k][1]) > Tolerance
OffY(k) == Abs(snap_size[2] - naip_size[k][2]) > Tolerance

\* C1: the alignment check succeeds if and only if the width and the height
\* both differ from the reference by no more than the tolerance; a candidate
\* out of tolerance on exactly one axis makes the check fail.
C1_SucceedsIffBothWithin ==
    \A k \in 1..Len(naip_size) :
        Checked(k) => ((k \in passed) <=> (~OffX(k) /\ ~OffY(k)))

NoData == 0
\* Land-cover class codes that occur in the rasters.
Classes == {1, 2}
\* A sweep that stops one weight short, as range(20) would.
MaxWeightShort == 20 - 1

\* range(21): the weights are 0 .. 20.
MaxWeight == 20
\* The divisor of the class-count terms len(region_lc) / 20, len(tile_lc) / 20.
ClassDiv == 20

RECURSIVE Gcd(_, _)
Gcd(a, b) == IF b = 0 THEN a ELSE Gcd(b, a % b)

RECURSIVE LcmUpTo(_)
LcmUpTo(n) == IF n <= 1 THEN 1
              ELSE LET l == LcmUpTo(n - 1) IN (l * n) \div Gcd(l, n)

\* Fractions count / sum are held exactly, in units of 1 / Unit: every sum
\* of a histogram of the request divides Unit.
Unit == unit

\* Scores are held exactly, in units of 1 / (Unit^2 * ClassDiv^2).
ScoreDen == Unit * Unit * ClassDiv * ClassDiv

\* a // b (floor division) in place of a / b.
FloorDiv(a, b) == (a \div b) * Unit

\* a / b (true division), in units of 1 / Unit.
TrueDiv(a, b) == (a * Unit) \div b

\* x ** 2 for x in units of 1 / Unit, as a score.
FracSq(x) == ClassDiv * ClassDiv * x * x

\* The class-count term without its square: weight * (m / 20 - n / 20).
LenTermLinear(weight, m, n) == weight * Unit * Unit * ClassDiv * (m - n)

\* weight * (m / 20 - n / 20) ** 2, as a score.
LenTerm(weight, m, n) == weight * Unit * Unit * (m - n) * (m - n)

\* sum(d.values())
RECURSIVE SumOver(_, _)
SumOver(d, S) ==
    IF S = {} THEN 0
    ELSE LET k == CHOOSE x \in S : TRUE
         IN  d[k] + SumOver(d, S \ {k})

SumValues(d) == SumOver(d, DOMAIN d)

\* math.fsum(d) of a list
RECURSIVE fsum(_)
fsum(d) == IF d = <<>> THEN 0 ELSE Head(d) + fsum(Tail(d))

\* len(d) of a dict
DictLen(d) == Cardinality(DOMAIN d)

\* d.keys() of a histogram built by dict(zip(unique, counts)): np.unique
\* returns the values in ascending order.
RECURSIVE KeysInOrder(_)
KeysInOrder(S) ==
    IF S = {} THEN <<>>
    ELSE LET m == CHOOSE x \in S : \A y \in S : x <= y
         IN  <<m>> \o KeysInOrder(S \ {m})

\* del d[key], given that key is a key of d
DictDel(d, key) == [x \in DOMAIN d \ {key} |-> d[x]]

\* out_index.update({k: v}) on an item sequence
DictUpdate(items, k, v) ==
    IF \E n \in 1..Len(items) : items[n][1] = k
    THEN [n \in 1..Len(items) |->
             IF items[n][1] = k THEN <<k, v>> ELSE items[n]]
    ELSE Append(items, <<k, v>>)

\* sorted(out_index.items(), key=lambda item: item[1]): a stable sort,
\* ascending by value.  An item goes after every item not greater than it.
RECURSIVE InsertByValue(_, _)
InsertByValue(sorted, item) ==
    IF sorted = <<>> THEN <<item>>
    ELSE IF Head(sorted)[2] <= item[2]
         THEN <<Head(sorted)>> \o InsertByValue(Tail(sorted), item)
         ELSE <<item>> \o sorted

RECURSIVE SortedFrom(_, _)
SortedFrom(done, items) ==
    IF items = <<>> THEN done
    ELSE SortedFrom(InsertByValue(done, Head(items)), Tail(items))

sorted_by_value(items) == SortedFrom(<<>>, items)

\* sorted(name_list): ascending OBJECTIDs
RECURSIVE InsertId(_, _)
InsertId(sorted, i) ==
    IF sorted = <<>> THEN <<i>>
    ELSE IF Head(sorted) <= i
         THEN <<Head(sorted)>> \o InsertId(Tail(sorted), i)
         ELSE <<i>> \o sorted

RECURSIVE SortedIdsFrom(_, _)
SortedIdsFrom(done, ids) ==
    IF ids = <<>> THEN done
    ELSE SortedIdsFrom(InsertId(done, Head(ids)), Tail(ids))

sorted_ids(ids) == SortedIdsFrom(<<>>, ids)

(***************************************************************************)
(* objective_function, __unweighted_ob, __weighted_ob                      *)
(***************************************************************************)
\* A term that leaves out the classes the tile lacks.
unweighted_term_skip_absent(gj, sumG, present, lj, sumL) ==
    IF ~present
    THEN 0
    ELSE LET G == TrueDiv(gj, sumG)
             L == TrueDiv(lj, sumL)
         IN  FracSq(G - L)

\* One term c of the list d in __unweighted_ob, for a class j of the
\* region: gj = region_lc.get(j), sumG = sum(region_lc.values()), present
\* is `j in tile_unique`, lj = tile_lc.get(j), sumL = sum(tile_lc.values()).
unweighted_term(gj, sumG, present, lj, sumL) ==
    IF ~present
    THEN LET G == TrueDiv(gj, sumG)
         IN  FracSq(G - 0)
    ELSE LET G == TrueDiv(gj, sumG)
             L == TrueDiv(lj, sumL)
         IN  FracSq(G - L)

\* A term whose class-count penalty is missing for a class the tile lacks.
weighted_term_bare_absent(gj, sumG, present, lj, sumL, weight, lenG, lenL) ==
    IF present
    THEN LET G == TrueDiv(gj, sumG)
             L == TrueDiv(lj, sumL)
         IN  FracSq(G - L) + LenTerm(weight, lenG, lenL)
    ELSE LET G == TrueDiv(gj, sumG)
         IN  FracSq(G - 0)

\* One term c of the list d in __weighted_ob; lenG = len(region_lc) and
\* lenL = len(tile_lc).
weighted_term(gj, sumG, present, lj, sumL, weight, lenG, lenL) ==
    IF present
    THEN LET G == TrueDiv(gj, sumG)
             L == TrueDiv(lj, sumL)
         IN  FracSq(G - L) + LenTerm(weight, lenG, lenL)
    ELSE LET G == TrueDiv(gj, sumG)
         IN  FracSq(G - 0) + LenTerm(weight, lenG, lenL)

\* The body of `for i in name_list` in __unweighted_ob after the NoData key
\* is deleted: math.fsum(d).  tile_unique still holds the NoData value;
\* tile_lc does not.
unweighted_score(region, arr) ==
    LET tile_unique == DOMAIN arr
        tile_lc == DictDel(arr, NoData)
        sumG == SumValues(region)
        sumL == SumValues(tile_lc)
        keys == KeysInOrder(DOMAIN region)
        d == [n \in 1..Len(keys) |->
                 LET j == keys[n]
                 IN  unweighted_term(region[j], sumG, j \in tile_unique,
                         IF j \in DOMAIN tile_lc THEN tile_lc[j] ELSE 0,
                         sumL)]
    IN  fsum(d)

\* The same in __weighted_ob, for one weight.
weighted_score(region, arr, weight) ==
    LET tile_unique == DOMAIN arr
        tile_lc == DictDel(arr, NoData)
        sumG == SumValues(region)
        sumL == SumValues(tile_lc)
        lenG == DictLen(region)
        lenL == DictLen(tile_lc)
        keys == KeysInOrder(DOMAIN region)
        d == [n \in 1..Len(keys) |->
                 LET j == keys[n]
                 IN  weighted_term(region[j], sumG, j \in tile_unique,
                         IF j \in DOMAIN tile_lc THEN tile_lc[j] ELSE 0,
                         sumL, weight, lenG, lenL)]
    IN  fsum(d)

\* `del tile_lc[nan]` raises KeyError for a tile without a NoData cell.
TileKeyError(names, tiles) ==
    \E n \in 1..Len(names) : NoData \notin DOMAIN tiles[names[n]]

\* out_index after the loop over the tiles `names` of __unweighted_ob.
RECURSIVE unweighted_index(_, _, _)
unweighted_index(names, tiles, region) ==
    IF names = <<>> THEN <<>>
    ELSE LET n == Len(names)
             i == names[n]
         IN  DictUpdate(unweighted_index(SubSeq(names, 1, n - 1), tiles, region),
                        i, unweighted_score(region, tiles[i]))

\* out_index after the loop over the tiles `names` of __weighted_ob.
RECURSIVE weighted_index(_, _, _, _)
weighted_index(names, tiles, region, weight) ==
    IF names = <<>> THEN <<>>
    ELSE LET n == Len(names)
             i == names[n]
         IN  DictUpdate(weighted_index(SubSeq(names, 1, n - 1), tiles, region,
                                       weight),
                        i, weighted_score(region, tiles[i], weight))

\* The order __unweighted_ob visits the tiles in: that of name_list.
unweighted_order(names) == names

\* The order __weighted_ob visits the tiles in.
weighted_order(names) == sorted_ids(names)

\* The last item of sort_func instead of the first.
weighted_pick_last(sort_func) == sort_func[Len(sort_func)]

\* The item of sort_func that __weighted_ob records for a weight.
weighted_pick(sort_func) == sort_func[1]

\* __unweighted_ob(name_list, naip, nlcd_region, region_lc)
unweighted_ob(names, tiles, region) ==
    IF TileKeyError(names, tiles)
    THEN [raised |-> "KeyError", index |-> <<>>, value |-> <<>>]
    ELSE LET index == unweighted_index(unweighted_order(names), tiles,
                                       region)
         IN  [raised |-> "none", index |-> index,
              value |-> sorted_by_value(index)]

\* __weighted_ob(name_list, naip, nlcd_region, region_lc)
weighted_ob(names, tiles, region) ==
    IF TileKeyError(names, tiles)
    THEN [raised |-> "KeyError", index |-> <<>>, value |-> <<>>]
    ELSE IF names = <<>>
    THEN [raised |-> "IndexError", index |-> <<>>, value |-> <<>>]
    ELSE LET order == weighted_order(names)
             index == [n \in 1..(MaxWeight + 1) |->
                          weighted_index(order, tiles, region, n - 1)]
         IN  [raised |-> "none", index |-> index,
              value |-> [n \in 1..(MaxWeight + 1) |->
                            <<n - 1,
                              weighted_pick(sorted_by_value(index[n]))>>]]

\* np.unique(arr, return_counts=True) zipped into a dict, for an array with
\* the class counts h and, when nd, with NoData cells.
RawHist(h, nd) ==
    [v \in DOMAIN h \cup (IF nd THEN {NoData} ELSE {}) |->
        IF v = NoData THEN 1 ELSE h[v]]

ClassHists == UNION { [S -> 1..MaxCount] : S \in SUBSET Classes }

RawHists == { RawHist(h, nd) : h \in ClassHists, nd \in BOOLEAN } \ {<<>>}

\* The OBJECTIDs a cursor can return: distinct, in any order.
NameLists ==
    { nl \in UNION { [1..n -> 1..MaxTiles] : n \in 0..MaxTiles } :
        \A a, b \in 1..Len(nl) : a # b => nl[a] # nl[b] }

Methods == {"unweighted", "weighted", "other"}

Range(f) == { f[x] : x \in DOMAIN f }

\* The rasters and the cursor before a call: at most one of the arrays has
\* no NoData cell (the first such array is where a call ends).
InitScore ==
    /\ \E r \in RawHists, nl \in NameLists :
       \E ta \in [Range(nl) -> RawHists] :
         /\ Cardinality({i \in Range(nl) : NoData \notin DOMAIN ta[i]})
              + (IF NoData \in DOMAIN r THEN 0 ELSE 1) <= 1
         /\ region_arr = r /\ name_list = nl /\ tile_arr = ta
    /\ method = "" /\ ob_pc = "idle" /\ ob_error = "none"
    /\ region_lc = <<>> /\ out_index = <<>> /\ training_tile = <<>>
    /\ ob_result = <<"None">>
    /\ unit = LcmUpTo(Cardinality(Classes) * MaxCount)
    /\ phy_sel = "prior" /\ naip_sel = [clause |-> "prior", id |-> 0]
    /\ ob_writes = <<>>
    /\ snap_size = <<0, 0>> /\ naip_size = <<>> /\ exists = {}
    /\ pc = "unused" /\ idx = 1 /\ passed = {} /\ projected = {}
    /\ stdout = <<>> /\ exit_code = 0
    /\ GapIdle
    /\ PipeIdle
    /\ LaterIdle

\* The tile of the last `OBJECTID = i` selection a helper makes when it
\* visits the tiles in `order`: the first tile whose array has no NoData
\* cell (the helper ends there), else the last tile.
last_selected(order, tiles) ==
    LET bad == { n \in 1..Len(order) : NoData \notin DOMAIN tiles[order[n]] }
    IN  IF bad = {} THEN order[Len(order)]
        ELSE order[CHOOSE n \in bad : \A k \in bad : n <= k]

\* The selection on naipqq_layer when objective_function ends.
naip_selection(m, names, tiles, region_ok) ==
    LET order == IF m = "unweighted" THEN unweighted_order(names)
                 ELSE weighted_order(names)
    IN  IF region_ok /\ m \in {"unweighted", "weighted"} /\ names # <<>>
        THEN [clause |-> "OBJECTID", id |-> last_selected(order, tiles)]
        ELSE [clause |-> "WITHIN", id |-> 0]

\* objective_function(config, phy_id, nlcd, method)
ObjectiveFunction ==
    /\ ob_pc = "idle"
    /\ \E m \in Methods :
         /\ method' = m
         /\ phy_sel' = "PHYSIO_ID = phy_id"
         /\ ob_writes' = Append(ob_writes, "./naip_subset.shp")
         /\ naip_sel' = naip_selection(m, name_list, tile_arr,
                                       NoData \in DOMAIN region_arr)
         /\ IF NoData \notin DOMAIN region_arr
            THEN /\ ob_pc' = "raised" /\ ob_error' = "KeyError"
                 /\ UNCHANGED <<region_lc, out_index, training_tile,
                                ob_result>>
            ELSE LET lc == DictDel(region_arr, NoData)
                     res == IF m = "unweighted"
                            THEN unweighted_ob(name_list, tile_arr, lc)
                            ELSE IF m = "weighted"
                            THEN weighted_ob(name_list, tile_arr, lc)
                            ELSE [raised |-> "ValueError", index |-> <<>>,
                                  value |-> <<>>]
                 IN  /\ region_lc' = lc
                     /\ out_index' = res.index
                     /\ training_tile' = res.value
                     /\ ob_error' = res.raised
                     /\ ob_pc' = IF res.raised = "none" THEN "returned"
                                 ELSE "raised"
                     /\ UNCHANGED ob_result
    /\ UNCHANGED <<region_arr, tile_arr, name_list, unit>>
    /\ UNCHANGED <<snapvars, gapvars, pipevars, latervars>>

NextScore == ObjectiveFunction

SpecScore == InitScore /\ [][NextScore]_vars

(***************************************************************************)
(* Claims about the objective function (checked under SpecScore).          *)
(*                                                                         *)
(* The claims are stated on the histograms G and L_i "with the no-data key *)
(* removed", in exact rational arithmetic: a score s, held in units of     *)
(* 1 / ScoreDen, equals N / D when s * D = ScoreDen * N.                   *)
(***************************************************************************)
\* The histogram of an array: its counts without the NoData key.
Hist(arr) == [v \in DOMAIN arr \ {NoData} |-> arr[v]]
HistG == Hist(region_arr)
HistL(i) == Hist(tile_arr[i])
Total(h) == SumValues(h)
Candidates == Range(name_list)

\* Sum over the classes j of G of (G_j/sum(G) - L_j/sum(L))^2 as the
\* fraction SqDistNum / SqDistDen; L_j is 0 for a class that L lacks.
SqDistNum(G, L) ==
    LET tG == Total(G)
        tL == Total(L)
        Lj(j) == IF j \in DOMAIN L THEN L[j] ELSE 0
    IN  IF tL = 0
        THEN SumValues([j \in DOMAIN G |-> G[j] * G[j]])
        ELSE SumValues([j \in DOMAIN G |->
                 (G[j] * tL - Lj(j) * tG) * (G[j] * tL - Lj(j) * tG)])

SqDistDen(G, L) ==
    LET tG == Total(G)
        tL == Total(L)
    IN  IF tG = 0 THEN 1
        ELSE IF tL = 0 THEN tG * tG
        ELSE (tG * tL) * (tG * tL)

\* The items of a dict held as a sequence, as a set.
Items(d) == { d[n] : n \in 1..Len(d) }
\* The value of key k in such a dict.
ValueOf(d, k) == (CHOOSE it \in Items(d) : it[1] = k)[2]

UnweightedReturned == ob_pc = "returned" /\ method = "unweighted"
WeightedReturned == ob_pc = "returned" /\ method = "weighted"

\* C4: in unweighted mode the score of tile i equals the sum over every
\* class j that is a key of G of (G_j/sum(G) - L_ij/sum(L_i))^2, with L_ij = 0
\* for a class the tile lacks, sum(L_i) over all classes of the tile, and no
\* term for a class only the tile has.
C4_UnweightedScoreFormula ==
    UnweightedReturned =>
        /\ { it[1] : it \in Items(training_tile) } = Candidates
        /\ \A it \in Items(training_tile) :
             it[2] * SqDistDen(HistG, HistL(it[1]))
                = ScoreDen * SqDistNum(HistG, HistL(it[1]))

C4_Witness ==
    /\ UnweightedReturned
    /\ \E i \in Candidates :
         /\ DOMAIN HistL(i) \ DOMAIN HistG # {}
         /\ DOMAIN HistL(i) \cap DOMAIN HistG # {}
    /\ \E i \in Candidates : DOMAIN HistG \ DOMAIN HistL(i) # {}

\* C5: the unweighted score table lists every candidate exactly once in
\* ascending order of score, and of two candidates with equal scores the
\* one with the smaller identifier comes first, whatever the order the
\* candidates were supplied in.
C5_AscendingTiesById ==
    UnweightedReturned =>
        /\ Len(training_tile) = Len(name_list)
        /\ { it[1] : it \in Items(training_tile) } = Candidates
        /\ \A n, m \in 1..Len(training_tile) :
             n < m =>
                \/ training_tile[n][2] < training_tile[m][2]
                \/ /\ training_tile[n][2] = training_tile[m][2]
                   /\ training_tile[n][1] < training_tile[m][1]

\* C6: in weighted mode, for every weight w in 0..20 the score of tile i
\* equals its unweighted score plus exactly one penalty term
\* w * (|classes(G)|/20 - |classes(L_i)|/20)^2 (stated for a region that
\* has data, so that the fractions G_j/sum(G) exist).
C6_OnePenaltyTerm ==
    (WeightedReturned /\ Total(HistG) > 0) =>
        \A w \in 0..20 : \A it \in Items(out_index[w + 1]) :
            LET L == HistL(it[1])
                D == SqDistDen(HistG, L)
                dl == Cardinality(DOMAIN HistG) - Cardinality(DOMAIN L)
            IN  it[2] * D
                  = Unit * Unit * (400 * SqDistNum(HistG, L) + w * dl * dl * D)

C8_BestCandidatePerWeight ==
    WeightedReturned =>
        \A w \in 0..20 :
            LET best == training_tile[w + 1][2]
                scores == Items(out_index[w + 1])
            IN  /\ { it[1] : it \in scores } = Candidates
                /\ best \in scores
                /\ \A it \in scores :
                     /\ best[2] <= it[2]
                     /\ (it[2] = best[2]) => best[1] <= it[1]

C8_Witness ==
    /\ WeightedReturned
    /\ name_list # sorted_ids(name_list)
    /\ \E w \in 0..20 :
         /\ \A it \in Items(out_index[w + 1]) :
              it[2] = training_tile[w + 1][2][2]
    /\ \E w \in 0..20 : \E it \in Items(out_index[w + 1]) :
         it[2] > training_tile[w + 1][2][2]

\* How far the tile's number of distinct classes is from the region's.
ClassDivergence(i) ==
    Abs(Cardinality(DOMAIN HistG) - Cardinality(DOMAIN HistL(i)))

\* C9: for two candidates a and b where a's number of distinct classes
\* differs from the region's by more than b's, and weights w1 < w2 in 0..20:
\* if b scores no worse than a at w1 then b scores no worse than a at w2.
C9_DivergentTileNeverGains ==
    WeightedReturned =>
        \A a, b \in Candidates :
            ClassDivergence(a) > ClassDivergence(b) =>
                \A w1, w2 \in 0..20 :
                    (/\ w1 < w2
                     /\ ValueOf(out_index[w1 + 1], b)
                          <= ValueOf(out_index[w1 + 1], a))
                    => ValueOf(out_index[w2 + 1], b)
                          <= ValueOf(out_index[w2 + 1], a)

C9_Witness ==
    /\ WeightedReturned
    /\ DOMAIN HistG # {}
    /\ \E a, b \in Candidates :
         /\ ClassDivergence(a) > ClassDivergence(b)
         /\ ValueOf(out_index[1], b) = ValueOf(out_index[1], a)
         /\ ValueOf(out_index[21], b) < ValueOf(out_index[21], a)

\* Some histogram of the request has a total count of zero.
ZeroTotal ==
    \/ Total(HistG) = 0
    \/ \E i \in Candidates : Total(HistL(i)) = 0

C11_InvalidModeOnlyError ==
    (ob_pc # "idle" /\ method \notin {"unweighted", "weighted"})
    => /\ ob_pc = "raised" /\ ob_error = "ValueError"
       /\ training_tile = <<>>
       /\ phy_sel = "prior" /\ naip_sel.clause = "prior"
       /\ ob_writes = <<>>

\* C12 as stated: a call with candidates that ends without an exception
\* returns to its caller the mapping its helper computed.
C12_ResultHandedToCaller ==
    (ob_pc = "returned" /\ name_list # <<>>)
    => ob_result = <<"dict", training_tile>>

\* C13 as stated: for every input grid, also one without a NoData cell, the
\* region histogram is built (no KeyError, for the region or for a tile), it
\* has no NoData key, and each count is the positive number of cells of
\* that class.
C13_HistogramAlwaysBuilt ==
    ob_pc # "idle"
    => /\ ob_error # "KeyError"
       /\ region_lc = Hist(region_arr)
       /\ NoData \notin DOMAIN region_lc
       /\ \A v \in DOMAIN region_lc : region_lc[v] > 0

(***************************************************************************)
(* The objective function on histograms of a hundred cells or so: the      *)
(* region and the tiles are drawn from a few NLCD histograms with the      *)
(* classes 10 and 20, among them the worked example of the specification.  *)
(***************************************************************************)

\* np.unique of the arrays: the class counts and one NoData cell.
ExampleRegions ==
    { RawHist(h, TRUE) : h \in { (10 :> 100) @@ (20 :> 50),
                                 (10 :> 50) @@ (20 :> 100),
                                 (10 :> 50) @@ (20 :> 50),
                                 (10 :> 100) } }

ExampleTiles ==
    { RawHist(h, TRUE) : h \in { (10 :> 60) @@ (20 :> 40),
                                 (10 :> 90) @@ (20 :> 10),
                                 (10 :> 40) @@ (20 :> 60),
                                 (10 :> 10) @@ (20 :> 90) } }

\* The least common multiple of a set of positive numbers.
RECURSIVE LcmOf(_)
LcmOf(S) ==
    IF S = {} THEN 1
    ELSE LET x == CHOOSE y \in S : TRUE
             l == LcmOf(S \ {x})
         IN  (l * x) \div Gcd(l, x)

InitExample ==
    /\ \E r \in ExampleRegions, nl \in NameLists :
       \E ta \in [Range(nl) -> ExampleTiles] :
         /\ region_arr = r /\ name_list = nl /\ tile_arr = ta
    /\ method = "" /\ ob_pc = "idle" /\ ob_error = "none"
    /\ region_lc = <<>> /\ out_index = <<>> /\ training_tile = <<>>
    /\ ob_result = <<"None">>
    /\ unit = LcmOf({ SumValues(DictDel(h, NoData)) :
                         h \in ExampleRegions \cup ExampleTiles })
    /\ phy_sel = "prior" /\ naip_sel = [clause |-> "prior", id |-> 0]
    /\ ob_writes = <<>>
    /\ snap_size = <<0, 0>> /\ naip_size = <<>> /\ exists = {}
    /\ pc = "unused" /\ idx = 1 /\ passed = {} /\ projected = {}
    /\ stdout = <<>> /\ exit_code = 0
    /\ GapIdle
    /\ PipeIdle
    /\ LaterIdle

SpecExample == InitExample /\ [][NextScore]_vars

\* A score s, in units of 1 / ScoreDen, is n / 10000 when rounded to four
\* decimal places (20000 divides ScoreDen under SpecExample).
RoundsTo(s, n) ==
    LET q == ScoreDen \div 20000
    IN  (2 * n - 1) * q <= s /\ s < (2 * n + 1) * q

\* The request of the worked example: region {10: 100, 20: 50}, tile 1 is
\* A = {10: 60, 20: 40}, tile 2 is B = {10: 90, 20: 10}.
WorkedExample ==
    /\ UnweightedReturned
    /\ HistG = (10 :> 100) @@ (20 :> 50)
    /\ Candidates = {1, 2}
    /\ HistL(1) = (10 :> 60) @@ (20 :> 40)
    /\ HistL(2) = (10 :> 90) @@ (20 :> 10)

\* C18 as stated: in the worked example F_A is 0.0089 and F_B is 0.1086 to
\* four decimal places, and A is ranked before B.
C18_WorkedExampleAsStated ==
    WorkedExample =>
        /\ RoundsTo(ValueOf(training_tile, 1), 89)
        /\ RoundsTo(ValueOf(training_tile, 2), 1086)
        /\ training_tile[1][1] = 1 /\ training_tile[2][1] = 2

\* C18 amended: in the worked example F_A = 2/225 is 0.0089 and
\* F_B = 49/450 is 0.1089 to four decimal places, and A is ranked before B.
C18_WorkedExample ==
    WorkedExample =>
        /\ RoundsTo(ValueOf(training_tile, 1), 89)
        /\ ValueOf(training_tile, 1) * 225 = 2 * ScoreDen
        /\ RoundsTo(ValueOf(training_tile, 2), 1089)
        /\ ValueOf(training_tile, 2) * 45 = (49 * ScoreDen) \div 10
        /\ training_tile[1][1] = 1 /\ training_tile[2][1] = 2

\* The worked example, with B before A in the cursor.
C18_Witness == WorkedExample /\ name_list = <<2, 1>>

(***************************************************************************)
(* Check_gaps                                                              *)
(*                                                                         *)
(* Cells are pairs <<i, j>> of 0-based indices, as in numpy.  The result   *)
(* of dict.get is <<>> for None and <<c>> for the count c.                 *)
(***************************************************************************)

\* The default of the nodata parameter of Check_gaps.__init__.
nodata == 3

\* Values of the cells: a valid value, the nodata value, a value above it.
CellValues == {1, nodata, nodata + 1}

\* arr.shape of a two-dimensional array with 0-based indices
arr_shape(arr) ==
    <<Cardinality({ c[1] : c \in DOMAIN arr }),
      Cardinality({ c[2] : c \in DOMAIN arr })>>

\* The indices of an array of the given shape.
CellsOf(sh) == (0..(sh[1] - 1)) \X (0..(sh[2] - 1))

\* self.region_array.shape and its indices
shape == arr_shape(region_array)

Cells == DOMAIN region_array

max(a, b) == IF a >= b THEN a ELSE b

min(a, b) == IF a <= b THEN a ELSE b

\* arr[max(i - d, 0):min(i + d + 1, shape[0]),
\*     max(j - d, 0):min(j + d + 1, shape[1])].flatten()
neighbors(arr, i, j, d) ==
    LET sh == arr_shape(arr)
        r0 == max(i - d, 0)
        r1 == min(i + d + 1, sh[1])
        c0 == max(j - d, 0)
        c1 == min(j + d + 1, sh[2])
        w == c1 - c0
    IN  [n \in 1..((r1 - r0) * w) |->
            arr[<<r0 + ((n - 1) \div w), c0 + ((n - 1) % w)>>]]

\* dict(zip(*np.unique(n, return_counts=True)))
unique_counts(n) ==
    [v \in { n[k] : k \in 1..Len(n) } |->
        Cardinality({ k \in 1..Len(n) : n[k] = v })]

\* d.get(key)
dict_get(d, key) == IF key \in DOMAIN d THEN <<d[key]>> ELSE <<>>

\* zip(*np.where(arr >= threshold)): the cells in row-major order.
where_ge(arr, threshold) ==
    LET sh == arr_shape(arr)
        all == [f \in 1..(sh[1] * sh[2]) |->
                   <<(f - 1) \div sh[2], (f - 1) % sh[2]>>]
        keep(c) == arr[c] >= threshold
    IN  SelectSeq(all, keep)

\* A comparison with `< 2` in place of `<= 2`.
gap_test_strict(got) ==
    IF got = <<>> THEN "TypeError"
    ELSE IF got[1] < 2 THEN "gap" ELSE "next"

\* `val_dict.get(self.nodata) <= 2`: comparing None raises TypeError.
gap_test(got) ==
    IF got = <<>> THEN "TypeError"
    ELSE IF got[1] <= 2 THEN "gap" ELSE "next"

\* A loop that goes on after a gap is printed.
loop_breaks_never(outcome) == FALSE

\* The `break` after the print.
loop_breaks(outcome) == outcome = "gap"

\* The grids: at most MaxNoData cells at or above the nodata value.
Grids ==
    { [c \in CellsOf(<<GridRows, GridCols>>) |->
          IF c \in DOMAIN f THEN f[c] ELSE 1] :
        f \in UNION { [S -> {nodata, nodata + 1}] :
                        S \in { T \in SUBSET CellsOf(<<GridRows, GridCols>>) :
                                  Cardinality(T) <= MaxNoData } } }

InitGaps ==
    /\ region_array \in Grids
    /\ gap_pc = "new" /\ index_ij = <<>> /\ gap_i = 0
    /\ gap_seen = <<>> /\ gap_stdout = <<>>
    /\ pc = "unused" /\ snap_size = <<0, 0>> /\ naip_size = <<>>
    /\ exists = {} /\ idx = 1 /\ passed = {} /\ projected = {}
    /\ stdout = <<>> /\ exit_code = 0
    /\ ObIdle
    /\ PipeIdle
    /\ LaterIdle

\* __init__ calls check, which computes the cells to scan.
GapsCheck ==
    /\ gap_pc = "new"
    /\ index_ij' = where_ge(region_array, nodata)
    /\ gap_pc' = "scan"
    /\ UNCHANGED <<region_array, gap_i, gap_seen, gap_stdout>>
    /\ UNCHANGED <<snapvars, obvars, pipevars, latervars>>

\* One iteration of `for i in range(len(index_i))`.
GapsExamine ==
    /\ gap_pc = "scan" /\ gap_i < Len(index_ij)
    /\ LET cell == index_ij[gap_i + 1]
           n == neighbors(region_array, cell[1], cell[2], 1)
           val_dict == unique_counts(n)
           got == dict_get(val_dict, nodata)
           outcome == gap_test(got)
       IN  /\ gap_seen' = Append(gap_seen, [cell |-> cell, got |-> got])
           /\ gap_stdout' = IF outcome = "gap"
                            THEN Append(gap_stdout,
                                        "Gaps are present in mosaic")
                            ELSE gap_stdout
           /\ IF outcome = "TypeError"
              THEN gap_pc' = "raised" /\ UNCHANGED gap_i
              ELSE IF loop_breaks(outcome)
              THEN gap_pc' = "done" /\ UNCHANGED gap_i
              ELSE gap_i' = gap_i + 1 /\ UNCHANGED gap_pc
    /\ UNCHANGED <<region_array, index_ij>>
    /\ UNCHANGED <<snapvars, obvars, pipevars, latervars>>

\* The loop ends without a break.
GapsExhausted ==
    /\ gap_pc = "scan" /\ gap_i >= Len(index_ij)
    /\ gap_pc' = "done"
    /\ UNCHANGED <<region_array, index_ij, gap_i, gap_seen, gap_stdout>>
    /\ UNCHANGED <<snapvars, obvars, pipevars, latervars>>

NextGaps == GapsCheck \/ GapsExamine \/ GapsExhausted

SpecGaps == InitGaps /\ [][NextGaps]_vars

(***************************************************************************)
(* Claims about Check_gaps (checked under SpecGaps).  A no-data cell is a  *)
(* cell whose value is at or above the nodata value.                       *)
(***************************************************************************)

\* The radius-1 neighbourhood of a cell, clipped at the array bounds; the
\* cell itself belongs to it.
Window(c) ==
    { x \in Cells : Abs(x[1] - c[1]) <= 1 /\ Abs(x[2] - c[2]) <= 1 }

IsNoData(c) == region_array[c] >= nodata

\* Cells of the window at or above the nodata value.
GeCount(c) == Cardinality({ x \in Window(c) : IsNoData(x) })

\* Cells of the window equal to the nodata value.
EqCount(c) == Cardinality({ x \in Window(c) : region_array[x] = nodata })

\* No-data cells among the neighbours of a cell, the cell left out.
NoDataNeighbours(c) == Cardinality({ x \in Window(c) \ {c} : IsNoData(x) })

ValidNeighbours(c) == Cardinality({ x \in Window(c) \ {c} : ~IsNoData(x) })

GapsFinished == gap_pc \in {"done", "raised"}

GapsReported == gap_stdout # <<>>

\* C14 as stated: the cells scanned are those at or above the threshold; the
\* number compared against 2 for a scanned cell is the number of cells of
\* its clipped radius-1 neighbourhood at or above the threshold; and gaps
\* are reported iff some such cell has that number <= 2.
C14_CountsAtOrAboveThreshold ==
    /\ gap_pc # "new" =>
          { index_ij[n] : n \in 1..Len(index_ij) }
             = { c \in Cells : IsNoData(c) }
    /\ \A n \in 1..Len(gap_seen) :
          gap_seen[n].got = <<GeCount(gap_seen[n].cell)>>
    /\ GapsFinished =>
          (GapsReported <=>
             \E c \in Cells : IsNoData(c) /\ GeCount(c) <= 2)

\* C15 as stated, on the grids without a value above the nodata value: a
\* grid with a no-data cell that has 8 neighbours of which at least 6 are
\* valid is reported to have gaps.
C15_SixValidNeighboursReported ==
    (/\ GapsFinished
     /\ \A c \in Cells : region_array[c] <= nodata
     /\ \E c \in Cells : /\ IsNoData(c)
                          /\ Cardinality(Window(c)) = 9
                          /\ ValidNeighbours(c) >= 6)
    => GapsReported

\* Three mutually adjacent cells equal to the nodata value around a cell
\* with 8 neighbours: each has 6 valid neighbours or more, none is reported.
C15_ThreeAdjacentUnreported ==
    /\ gap_pc = "done" /\ ~GapsReported
    /\ \A c \in Cells : region_array[c] <= nodata
    /\ \E c \in Cells : /\ region_array[c] = nodata
                         /\ Cardinality(Window(c)) = 9
                         /\ ValidNeighbours(c) = 6

\* C16 as stated: when every no-data cell has at least 3 no-data cells among
\* its neighbours, and when there is no no-data cell, the scan ends without
\* reporting gaps.
C16_SolidRegionNotReported ==
    (/\ GapsFinished
     /\ \A c \in Cells : IsNoData(c) => NoDataNeighbours(c) >= 3)
    => (gap_pc = "done" /\ ~GapsReported)

\* The first position of index_ij before the second, in row-major order.
RowMajorBefore(a, b) == a[1] < b[1] \/ (a[1] = b[1] /\ a[2] < b[2])

\* The gap condition as the scan evaluates it.
GapCondition(got) == got # <<>> /\ got[1] <= 2

\* C17: the cells to scan are in row-major order and are examined in that
\* order; no cell examined before the last one satisfies the gap condition;
\* once gaps are reported the scan is over, the cell examined last is the
\* one that satisfied the condition, and there is one report at most.
C17_StopsAtFirstGap ==
    /\ \A a, b \in 1..Len(index_ij) :
          a < b => RowMajorBefore(index_ij[a], index_ij[b])
    /\ Len(gap_seen) <= Len(index_ij)
    /\ \A n \in 1..Len(gap_seen) : gap_seen[n].cell = index_ij[n]
    /\ \A n \in 1..(Len(gap_seen) - 1) : ~GapCondition(gap_seen[n].got)
    /\ Len(gap_stdout) <= 1
    /\ GapsReported =>
          /\ gap_pc = "done"
          /\ GapCondition(gap_seen[Len(gap_seen)].got)

\* Gaps were reported at a cell that is not the first to be examined, and a
\* cell after it would satisfy the gap condition too.
C17_Witness ==
    /\ gap_pc = "done" /\ GapsReported
    /\ Len(gap_seen) >= 2
    /\ \E n \in (Len(gap_seen) + 1)..Len(index_ij) :
          EqCount(index_ij[n]) \in 1..2

\* The cells __neighbors returns for a cell: the window of the array that
\* holds at each cell the cell itself.
neighbor_cells(c) ==
    LET n == neighbors([x \in Cells |-> x], c[1], c[2], 1)
    IN  [set |-> { n[k] : k \in 1..Len(n) }, len |-> Len(n)]

\* Cells of the window other than the cell itself that hold the nodata
\* value.
OtherEqCount(c) ==
    Cardinality({ x \in Window(c) \ {c} : region_array[x] = nodata })

\* The cell examined at position n was flagged: the report was printed at
\* it (the scan stops there).
FlaggedAt(n) == GapsReported /\ n = Len(gap_seen)

GridOf(rows) ==
    [c \in CellsOf(<<Len(rows), Len(rows[1])>>) |-> rows[c[1] + 1][c[2] + 1]]

\* XXXXXX / X.X..X / X..X.X / XXXXXX
WiderGapGrid ==
    GridOf(<< <<1, 1, 1, 1, 1, 1>>,
              <<1, nodata, 1, nodata, nodata, 1>>,
              <<1, nodata, nodata, 1, nodata, 1>>,
              <<1, 1, 1, 1, 1, 1>> >>)

\* XXXXXX / X....X / XXXXXX
SingleRowGapGrid ==
    GridOf(<< <<1, 1, 1, 1, 1, 1>>,
              <<1, nodata, nodata, nodata, nodata, 1>>,
              <<1, 1, 1, 1, 1, 1>> >>)

\* The arrays of a shape whose cells on the outer rows and columns are valid.
FramedGrids(sh) ==
    LET inner == { c \in CellsOf(sh) : /\ c[1] \in 1..(sh[1] - 2)
                                       /\ c[2] \in 1..(sh[2] - 2) }
    IN  { [c \in CellsOf(sh) |-> IF c \in inner THEN f[c] ELSE 1] :
            f \in [inner -> {1, nodata}] }

InitDoc ==
    /\ region_array \in FramedGrids(<<4, 6>>) \cup FramedGrids(<<3, 6>>)
    /\ gap_pc = "new" /\ index_ij = <<>> /\ gap_i = 0
    /\ gap_seen = <<>> /\ gap_stdout = <<>>
    /\ pc = "unused" /\ snap_size = <<0, 0>> /\ naip_size = <<>>
    /\ exists = {} /\ idx = 1 /\ passed = {} /\ projected = {}
    /\ stdout = <<>> /\ exit_code = 0
    /\ ObIdle
    /\ PipeIdle
    /\ LaterIdle

SpecDoc == InitDoc /\ [][NextGaps]_vars

(***************************************************************************)
(* Claims about the documented grids (checked under SpecDoc).              *)
(***************************************************************************)

\* The gap condition of check at a cell of the array.
SatisfiesGapCondition(c) ==
    gap_test(dict_get(unique_counts(neighbors(region_array, c[1], c[2], 1)),
                      nodata)) = "gap"

NoDataCells == { c \in Cells : region_array[c] = nodata }

\* C26: on the documented grid with the inner rows X.X..X and X..X.X exactly
\* the 2 middle no-data cells fail the gap condition, the other four satisfy
\* it, and the check reports gaps; on the grid with the single row X....X
\* every no-data cell satisfies the gap condition.
C26_DocumentedGrids ==
    /\ region_array = WiderGapGrid =>
          /\ { c \in NoDataCells : ~SatisfiesGapCondition(c) }
                = {<<1, 3>>, <<2, 2>>}
          /\ Cardinality({ c \in NoDataCells : SatisfiesGapCondition(c) }) = 4
          /\ GapsFinished => GapsReported
    /\ region_array = SingleRowGapGrid =>
          \A c \in NoDataCells : SatisfiesGapCondition(c)

\* The scan of the documented 4 x 6 grid examined its six no-data cells and
\* reported nothing: none of them satisfies the gap condition.
C26_WiderGapGridUnreported ==
    /\ region_array = WiderGapGrid
    /\ gap_pc = "done" /\ ~GapsReported
    /\ Len(gap_seen) = 6
    /\ \A c \in NoDataCells : ~SatisfiesGapCondition(c)

\* On the single-row grid the two cells at the ends satisfy the gap
\* condition and the two in the middle do not; the scan reports at the first.
C26_SingleRowMiddleFails ==
    /\ region_array = SingleRowGapGrid
    /\ gap_pc = "done" /\ GapsReported
    /\ { c \in NoDataCells : SatisfiesGapCondition(c) } = {<<1, 1>>, <<1, 4>>}

(***************************************************************************)
(* convert_afe_to_canopy_tif and its stages convert_afe_to_final_tiles,    *)
(* clip_final_tiles and mosaic_clipped_final_tiles.                        *)
(*                                                                         *)
(* A file is <<region, kind, tile>>.  The kinds are "in_rm" for            *)
(* Inputs/rm_<tile>.tif and, in Outputs, "rtif" for rm_<tile>.tif, "rshp"  *)
(* for rm_<tile>.shp, "fr" for frm_<tile>.tif, "cfr" for cfrm_<tile>.tif,  *)
(* "mosaic" and "canopy" (tile 0) for the two rasters of the region.       *)
(***************************************************************************)

\* The selected regions, in the order of the cursor on phyregs_layer.
RegionOrder == <<1, 2>>

Regions == { RegionOrder[n] : n \in 1..Len(RegionOrder) }

\* The tiles of a region, as sorted(cur2) yields them.
TileOrder == <<1, 2>>

Tiles == { TileOrder[n] : n \in 1..Len(TileOrder) }

TileKinds == {"in_rm", "rtif", "rshp", "fr", "cfr"}

AllFiles ==
    (Regions \X TileKinds \X Tiles) \cup (Regions \X {"mosaic", "canopy"} \X {0})

\* The cell size of the snap raster, and the cell sizes a tile can have.
PipeSnap == <<60000, 60000>>

PipeSizes == {<<60000, 60000>>, <<60011, 60011>>}

\* The elements of a set of numbers in ascending order.
RECURSIVE SortedSeq(_)
SortedSeq(S) ==
    IF S = {} THEN <<>>
    ELSE LET m == CHOOSE x \in S : \A y \in S : x <= y
         IN  <<m>> \o SortedSeq(S \ {m})

\* os.listdir(outdir_path)
listdir_outputs(fs, g) == { f \in fs : f[1] = g /\ f[2] # "in_rm" }

\* [os.path.basename(x) for x in glob.glob(f"{dir}/rm_*.tif")]: the tiles
\* with a file of the kind, by name.
glob_rm(fs, g, kind) == SortedSeq({ t \in Tiles : <<g, kind, t>> \in fs })

\* The list `missing`: the inputs whose name is not among the outputs.
missing_of(inputs_check, output_class_check) ==
    LET absent(i) ==
            \A n \in 1..Len(output_class_check) : output_class_check[n] # i
    IN  SelectSeq(inputs_check, absent)

\* A test on the list `missing` in place of the two lengths.
raises_ioerror_if_missing(inputs_check, output_class_check) ==
    missing_of(inputs_check, output_class_check) # <<>>

\* `if len(inputs_check) != len(output_class_check)`
raises_ioerror(inputs_check, output_class_check) ==
    Len(inputs_check) # Len(output_class_check)

\* An entry of pipe_log.
Event(ev, stage, g, t) == [ev |-> ev, stage |-> stage, region |-> g, tile |-> t]

\* The body of `for row2 in sorted(cur2)` in convert_afe_to_final_tiles for
\* the tile t; st holds the files, the log and whether check_snap exited.
convert_tile(g, t, sizes, st) ==
    IF <<g, "fr", t>> \in st.files THEN st
    ELSE IF <<g, "rshp", t>> \in st.files
    THEN LET w == [st EXCEPT
                     !.files = @ \cup {<<g, "fr", t>>},
                     !.log = Append(@, Event("FeatureToRaster", "convert",
                                             g, t))]
         IN  IF check_snap(sizes[<<g, t>>], PipeSnap).exits
             THEN [w EXCEPT !.exited = TRUE]
             ELSE w
    ELSE IF <<g, "rtif", t>> \in st.files
    THEN IF check_snap(sizes[<<g, t>>], PipeSnap).exits
         THEN [st EXCEPT !.exited = TRUE]
         ELSE [st EXCEPT
                 !.files = @ \cup {<<g, "fr", t>>},
                 !.log = Append(@, Event("Reclassify", "convert", g, t))]
    ELSE st

\* The tile loop of convert_afe_to_final_tiles; it ends where check_snap
\* exits.
RECURSIVE convert_tiles(_, _, _, _)
convert_tiles(g, ts, sizes, st) ==
    IF ts = <<>> \/ st.exited THEN st
    ELSE convert_tiles(g, Tail(ts), sizes, convert_tile(g, Head(ts), sizes, st))

\* The body of the tile loop of clip_final_tiles.
clip_tile(g, t, st) ==
    IF <<g, "cfr", t>> \in st.files THEN st
    ELSE IF <<g, "fr", t>> \in st.files
    THEN [st EXCEPT
            !.files = @ \cup {<<g, "cfr", t>>},
            !.log = Append(@, Event("ExtractByMask", "clip", g, t))]
    ELSE st

RECURSIVE clip_tiles(_, _, _)
clip_tiles(g, ts, st) ==
    IF ts = <<>> THEN st
    ELSE clip_tiles(g, Tail(ts), clip_tile(g, Head(ts), st))

\* The string input_rasters as the sequence of its pieces: a quoted path
\* (the tile) or a ';' (tile 0).
Quoted(t) == [sep |-> FALSE, tile |-> t]

Semicolon == [sep |-> TRUE, tile |-> 0]

\* The loop that builds input_rasters in mosaic_clipped_final_tiles.
RECURSIVE mosaic_list(_, _, _, _)
mosaic_list(g, ts, fs, input_rasters) ==
    IF ts = <<>> THEN input_rasters
    ELSE LET t == Head(ts)
             there == <<g, "cfr", t>> \in fs
             s1 == IF input_rasters # <<>>
                   THEN Append(input_rasters, Semicolon)
                   ELSE input_rasters
             s2 == IF there THEN Append(s1, Quoted(t)) ELSE s1
         IN  mosaic_list(g, Tail(ts), fs, s2)

\* The stage that follows a stage in another order.
stage_after_swapped(stage) ==
    CASE stage = "convert" -> "mosaic"
      [] stage = "mosaic" -> "clip"
      [] stage = "clip" -> "returned"

\* The three calls of convert_afe_to_canopy_tif, in order.
stage_after(stage) ==
    CASE stage = "convert" -> "clip"
      [] stage = "clip" -> "mosaic"
      [] stage = "mosaic" -> "returned"

\* The subsets of S with at most k elements.
RECURSIVE SetsUpTo(_, _)
SetsUpTo(S, k) ==
    IF k = 0 THEN {{}}
    ELSE LET prev == SetsUpTo(S, k - 1)
         IN  prev \cup { T \cup {x} : T \in prev, x \in S }

Line(text, g) == [text |-> text, region |-> g]

\* The lines a stage prints when it ends: 'Completed', and the elapsed time
\* from the wrapper of __timed when verbosity is 1.
end_lines(v) ==
    IF v = 1 THEN <<Line("Completed", 0), Line("minutes elapsed", 0)>>
    ELSE <<Line("Completed", 0)>>

\* The disk before the call: at most MaxFiles files, and at most one tile
\* whose rasters are off the snap raster.
InitPipe ==
    /\ files \in SetsUpTo(AllFiles, MaxFiles)
    /\ pipe_size \in { f \in [Regions \X Tiles -> PipeSizes] :
                          Cardinality({ x \in Regions \X Tiles :
                                          f[x] # PipeSnap }) <= 1 }
    /\ verbosity \in {0, 1}
    /\ pipe_pc = "idle" /\ pipe_region = 1 /\ pipe_log = <<>>
    /\ mosaic_inputs = <<>> /\ pipe_error = NoError /\ pipe_stdout = <<>>
    /\ pc = "unused" /\ snap_size = <<0, 0>> /\ naip_size = <<>>
    /\ exists = {} /\ idx = 1 /\ passed = {} /\ projected = {}
    /\ stdout = <<>> /\ exit_code = 0
    /\ ObIdle
    /\ GapIdle
    /\ LaterIdle

\* convert_afe_to_canopy_tif(config) is called and calls its first stage.
PipeCall ==
    /\ pipe_pc = "idle"
    /\ pipe_pc' = "convert"
    /\ pipe_log' = Append(pipe_log, Event("begin", "convert", 0, 0))
    /\ UNCHANGED <<files, pipe_size, verbosity, pipe_region, mosaic_inputs,
                   pipe_error, pipe_stdout>>
    /\ UNCHANGED <<snapvars, obvars, gapvars, latervars>>

\* One iteration of `for row in cur` in convert_afe_to_final_tiles.
ConvertRegion ==
    /\ pipe_pc = "convert" /\ pipe_region <= Len(RegionOrder)
    /\ LET g == RegionOrder[pipe_region]
           inputs_check == glob_rm(files, g, "in_rm")
           output_class_check == glob_rm(files, g, "rtif")
           log == Append(pipe_log, Event("region", "convert", g, 0))
           out == Append(pipe_stdout, Line("name", g))
           st == convert_tiles(g, TileOrder, pipe_size,
                     [files |-> files, log |-> log, exited |-> FALSE])
       IN  IF listdir_outputs(files, g) = {}
           THEN /\ pipe_region' = pipe_region + 1
                /\ pipe_log' = log /\ pipe_stdout' = out
                /\ UNCHANGED <<files, pipe_pc, pipe_error>>
           ELSE IF raises_ioerror(inputs_check, output_class_check)
           THEN /\ pipe_pc' = "raised"
                /\ pipe_error' =
                      [type |-> "IOError", region |-> g,
                       missing |-> missing_of(inputs_check,
                                              output_class_check)]
                /\ pipe_log' = log /\ pipe_stdout' = out
                /\ UNCHANGED <<files, pipe_region>>
           ELSE /\ files' = st.files
                /\ pipe_log' = st.log
                /\ IF st.exited
                   THEN /\ pipe_pc' = "exited"
                        /\ pipe_stdout' = Append(out, Line(SnapMessage, g))
                        /\ UNCHANGED pipe_region
                   ELSE /\ pipe_region' = pipe_region + 1
                        /\ pipe_stdout' = out
                        /\ UNCHANGED pipe_pc
                /\ UNCHANGED pipe_error
    /\ UNCHANGED <<pipe_size, verbosity, mosaic_inputs>>
    /\ UNCHANGED <<snapvars, obvars, gapvars, latervars>>

\* One iteration of `for row in cur` in clip_final_tiles.
ClipRegion ==
    /\ pipe_pc = "clip" /\ pipe_region <= Len(RegionOrder)
    /\ LET g == RegionOrder[pipe_region]
           log == Append(pipe_log, Event("region", "clip", g, 0))
           st == clip_tiles(g, TileOrder,
                            [files |-> files, log |-> log, exited |-> FALSE])
       IN  IF listdir_outputs(files, g) = {}
           THEN pipe_log' = log /\ UNCHANGED files
           ELSE pipe_log' = st.log /\ files' = st.files
    /\ pipe_stdout' = Append(pipe_stdout,
                              Line("name", RegionOrder[pipe_region]))
    /\ pipe_region' = pipe_region + 1
    /\ UNCHANGED <<pipe_size, verbosity, pipe_pc, mosaic_inputs, pipe_error>>
    /\ UNCHANGED <<snapvars, obvars, gapvars, latervars>>

\* One iteration of `for row in cur` in mosaic_clipped_final_tiles.
MosaicRegion ==
    /\ pipe_pc = "mosaic" /\ pipe_region <= Len(RegionOrder)
    /\ LET g == RegionOrder[pipe_region]
           log == Append(pipe_log, Event("region", "mosaic", g, 0))
           made == <<g, "mosaic", 0>> \in files
           input_rasters == mosaic_list(g, TileOrder, files, <<>>)
           save == Event("ExtractByMask", "mosaic", g, 0)
       IN  IF \/ listdir_outputs(files, g) = {}
              \/ <<g, "canopy", 0>> \in files
              \/ (~made /\ input_rasters = <<>>)
           THEN /\ pipe_log' = log
                /\ UNCHANGED <<files, mosaic_inputs>>
           ELSE IF made
           THEN /\ pipe_log' = Append(log, save)
                /\ files' = files \cup {<<g, "canopy", 0>>}
                /\ UNCHANGED mosaic_inputs
           ELSE /\ pipe_log' =
                      Append(Append(log, Event("MosaicToNewRaster", "mosaic",
                                               g, 0)), save)
                /\ files' = files \cup {<<g, "mosaic", 0>>, <<g, "canopy", 0>>}
                /\ mosaic_inputs' = (g :> input_rasters) @@ mosaic_inputs
    /\ pipe_stdout' = Append(pipe_stdout,
                              Line("name", RegionOrder[pipe_region]))
    /\ pipe_region' = pipe_region + 1
    /\ UNCHANGED <<pipe_size, verbosity, pipe_pc, pipe_error>>
    /\ UNCHANGED <<snapvars, obvars, gapvars, latervars>>

\* The region cursor of a stage is exhausted: the stage prints 'Completed'
\* and returns through the wrapper of __timed; convert_afe_to_canopy_tif
\* calls its next stage, or returns through its own wrapper.
StageCompleted ==
    /\ pipe_pc \in {"convert", "clip", "mosaic"}
    /\ pipe_region > Len(RegionOrder)
    /\ LET next == stage_after(pipe_pc)
           done == Append(pipe_log, Event("end", pipe_pc, 0, 0))
           out == pipe_stdout \o end_lines(verbosity)
       IN  /\ pipe_pc' = next
           /\ IF next = "returned"
              THEN /\ pipe_log' = done
                   /\ pipe_stdout' = IF verbosity = 1
                                     THEN Append(out, Line("minutes elapsed", 0))
                                     ELSE out
              ELSE /\ pipe_log' = Append(done, Event("begin", next, 0, 0))
                   /\ pipe_stdout' = out
    /\ pipe_region' = 1
    /\ UNCHANGED <<files, pipe_size, verbosity, mosaic_inputs, pipe_error>>
    /\ UNCHANGED <<snapvars, obvars, gapvars, latervars>>

NextPipe ==
    PipeCall \/ ConvertRegion \/ ClipRegion \/ MosaicRegion \/ StageCompleted

SpecPipe == InitPipe /\ [][NextPipe]_vars

(***************************************************************************)
(* Claims about convert_afe_to_canopy_tif (checked under SpecPipe).        *)
(***************************************************************************)

StageRank(stage) ==
    CASE stage = "convert" -> 1
      [] stage = "clip" -> 2
      [] stage = "mosaic" -> 3

\* The positions of pipe_log before position n that hold the event e.
Earlier(n, e) == { m \in 1..(n - 1) : pipe_log[m] = e }

\* The stage ran to its end for every region before position n of the log.
FinishedBefore(stage, n) ==
    /\ \A g \in Regions : Earlier(n, Event("region", stage, g, 0)) # {}
    /\ Earlier(n, Event("end", stage, 0, 0)) # {}

\* The engine calls of a stage that are in the log.
EngineCalls(stage) ==
    { n \in 1..Len(pipe_log) :
        /\ pipe_log[n].stage = stage
        /\ pipe_log[n].ev \notin {"begin", "region", "end"} }

\* C19: the first stage to start is convert_afe_to_final_tiles; everything
\* a stage does comes before everything a later stage does; clip_final_tiles
\* starts only when convert_afe_to_final_tiles has ended after visiting all
\* regions, and mosaic_clipped_final_tiles only when clip_final_tiles has;
\* when a stage ends in an exception or in an exit nothing of a later stage
\* has run; and the call returns only after all three stages ended.
C19_StagesInOrder ==
    /\ pipe_log # <<>> => pipe_log[1] = Event("begin", "convert", 0, 0)
    /\ \A a, b \in 1..Len(pipe_log) :
          StageRank(pipe_log[a].stage) < StageRank(pipe_log[b].stage)
            => a < b
    /\ \A n \in 1..Len(pipe_log) :
          /\ pipe_log[n] = Event("begin", "clip", 0, 0)
                => FinishedBefore("convert", n)
          /\ pipe_log[n] = Event("begin", "mosaic", 0, 0)
                => FinishedBefore("clip", n)
    /\ pipe_pc \in {"raised", "exited"} =>
          \A n \in 1..Len(pipe_log) : pipe_log[n].stage = "convert"
    /\ pipe_pc = "returned" => FinishedBefore("mosaic", Len(pipe_log) + 1)

\* The call returned and every stage called the engine.
C19_Witness ==
    /\ pipe_pc = "returned"
    /\ \A stage \in {"convert", "clip", "mosaic"} : EngineCalls(stage) # {}

\* The first stage raised at the second region after converting a tile of
\* the first.
C19_WitnessRaised ==
    /\ pipe_pc = "raised"
    /\ pipe_error.region = RegionOrder[2]
    /\ EngineCalls("convert") # {}

\* The reprojected inputs of a region without a same-named classified
\* output.
Missing(g) ==
    { t \in Tiles : <<g, "in_rm", t>> \in files /\ <<g, "rtif", t>> \notin files }

\* convert_afe_to_final_tiles raised IOError for the region.
IOErrorFor(g) == pipe_error.type = "IOError" /\ pipe_error.region = g

\* C20 as stated, for the regions whose Outputs folder is not empty: when
\* convert_afe_to_final_tiles has visited the region, it raised IOError for
\* it iff some input has no same-named output, and the names in the message
\* are those inputs.
C20_IOErrorIffMissing ==
    \A g \in Regions :
        (/\ Earlier(Len(pipe_log) + 1, Event("region", "convert", g, 0)) # {}
         /\ listdir_outputs(files, g) # {})
        => /\ IOErrorFor(g) <=> Missing(g) # {}
           /\ IOErrorFor(g) => Range(pipe_error.missing) = Missing(g)

\* The clipped tiles of a region that are on disk, in sorted tile order.
ClippedTiles(g) ==
    SelectSeq(TileOrder, LAMBDA t : <<g, "cfr", t>> \in files)

\* The quoted paths of the tiles with a single ';' between two of them.
RECURSIVE Joined(_)
Joined(ts) ==
    IF ts = <<>> THEN <<>>
    ELSE IF Len(ts) = 1 THEN <<Quoted(Head(ts))>>
    ELSE <<Quoted(Head(ts)), Semicolon>> \o Joined(Tail(ts))

\* The mosaic stage has handled the region.
MosaicVisited(g) ==
    Earlier(Len(pipe_log) + 1, Event("region", "mosaic", g, 0)) # {}

\* C28: the raster list given to MosaicToNewRaster for a region is the list
\* of its existing clipped tiles in sorted tile order, each quoted, with a
\* single ';' between two paths and none before the first or after the
\* last; a region without a clipped tile is skipped and MosaicToNewRaster
\* is not called for it.
C28_RasterListWellFormed ==
    \A g \in Regions :
       /\ g \in DOMAIN mosaic_inputs =>
             mosaic_inputs[g] = Joined(ClippedTiles(g))
       /\ (MosaicVisited(g) /\ ClippedTiles(g) = <<>>) =>
             /\ g \notin DOMAIN mosaic_inputs
             /\ Earlier(Len(pipe_log) + 1,
                        Event("MosaicToNewRaster", "mosaic", g, 0)) = {}

\* The part of C28 about a region without a clipped tile.
C28_NoTileNoMosaic ==
    \A g \in Regions :
       (MosaicVisited(g) /\ ClippedTiles(g) = <<>>) =>
          /\ g \notin DOMAIN mosaic_inputs
          /\ Earlier(Len(pipe_log) + 1,
                     Event("MosaicToNewRaster", "mosaic", g, 0)) = {}

\* MosaicToNewRaster was given a list that ends in ';': the first tile of
\* the region is on disk and the second is not.
C28_TrailingSemicolon ==
    \E g \in Regions :
       /\ g \in DOMAIN mosaic_inputs
       /\ ClippedTiles(g) = <<TileOrder[1]>>
       /\ mosaic_inputs[g] = <<Quoted(TileOrder[1]), Semicolon>>

(***************************************************************************)
(* The four stages called one after another on the same disk:              *)
(* reproject_naip_tiles, convert_afe_to_final_tiles, clip_final_tiles and  *)
(* mosaic_clipped_final_tiles, each as one call from its first region to   *)
(* its return, its raise or its exit.                                      *)
(***************************************************************************)

\* Largest number of stage calls in a row.
MaxRuns == 2

\* config.snaprast_path
SnapRast == <<0, "snaprast", 0>>

Stages == {"reproject", "convert", "clip", "mosaic"}

\* The start of reproject_naip_tiles: the snap raster is projected when it
\* is not on disk.
reproject_snaprast(st) ==
    IF SnapRast \in st.files THEN st
    ELSE [st EXCEPT
            !.files = @ \cup {SnapRast},
            !.log = Append(@, Event("ProjectRaster", "reproject", 0, 0))]

\* The body of `for row2 in sorted(cur2)` in reproject_naip_tiles.
reproject_tile(g, t, sizes, st) ==
    IF check_snap(sizes[<<g, t>>], PipeSnap).exits
    THEN [st EXCEPT !.exited = TRUE]
    ELSE IF <<g, "in_rm", t>> \in st.files THEN st
    ELSE [st EXCEPT
            !.files = @ \cup {<<g, "in_rm", t>>},
            !.log = Append(@, Event("ProjectRaster", "reproject", g, t))]

RECURSIVE reproject_tiles(_, _, _, _)
reproject_tiles(g, ts, sizes, st) ==
    IF ts = <<>> \/ st.exited THEN st
    ELSE reproject_tiles(g, Tail(ts), sizes,
                         reproject_tile(g, Head(ts), sizes, st))

\* The body of `for row in cur` in convert_afe_to_final_tiles.
convert_region(g, sizes, st) ==
    IF listdir_outputs(st.files, g) = {} THEN st
    ELSE IF raises_ioerror(glob_rm(st.files, g, "in_rm"),
                           glob_rm(st.files, g, "rtif"))
    THEN [st EXCEPT !.raised = TRUE]
    ELSE convert_tiles(g, TileOrder, sizes, st)

\* The body of `for row in cur` in clip_final_tiles.
clip_region(g, st) ==
    IF listdir_outputs(st.files, g) = {} THEN st
    ELSE clip_tiles(g, TileOrder, st)

\* The body of `for row in cur` in mosaic_clipped_final_tiles.
mosaic_region(g, st) ==
    LET made == <<g, "mosaic", 0>> \in st.files
        input_rasters == mosaic_list(g, TileOrder, st.files, <<>>)
        save == Event("ExtractByMask", "mosaic", g, 0)
    IN  IF \/ listdir_outputs(st.files, g) = {}
           \/ <<g, "canopy", 0>> \in st.files
           \/ (~made /\ input_rasters = <<>>)
        THEN st
        ELSE IF made
        THEN [st EXCEPT !.files = @ \cup {<<g, "canopy", 0>>},
                        !.log = Append(@, save)]
        ELSE [st EXCEPT
                !.files = @ \cup {<<g, "mosaic", 0>>, <<g, "canopy", 0>>},
                !.log = Append(Append(@, Event("MosaicToNewRaster", "mosaic",
                                               g, 0)), save)]

stage_region(stage, g, sizes, st) ==
    CASE stage = "reproject" -> reproject_tiles(g, TileOrder, sizes, st)
      [] stage = "convert" -> convert_region(g, sizes, st)
      [] stage = "clip" -> clip_region(g, st)
      [] stage = "mosaic" -> mosaic_region(g, st)

\* `for row in cur` of a stage: the loop ends early where check_snap exits
\* or the IOError is raised.
RECURSIVE stage_regions(_, _, _, _)
stage_regions(stage, gs, sizes, st) ==
    IF gs = <<>> \/ st.exited \/ st.raised THEN st
    ELSE stage_regions(stage, Tail(gs), sizes,
                       stage_region(stage, Head(gs), sizes, st))

\* One call of a stage on the files fs.
run_stage(stage, fs, sizes) ==
    LET st0 == [files |-> fs, log |-> <<>>, exited |-> FALSE,
                raised |-> FALSE]
        st1 == IF stage = "reproject" THEN reproject_snaprast(st0) ELSE st0
    IN  stage_regions(stage, RegionOrder, sizes, st1)

InitCache ==
    /\ files \in SetsUpTo(AllFiles \cup {SnapRast}, MaxFiles)
    /\ pipe_size \in { f \in [Regions \X Tiles -> PipeSizes] :
                          Cardinality({ x \in Regions \X Tiles :
                                          f[x] # PipeSnap }) <= 1 }
    /\ verbosity = 0
    /\ pipe_pc = "unused" /\ pipe_region = 1 /\ pipe_log = <<>>
    /\ mosaic_inputs = <<>> /\ pipe_error = NoError /\ pipe_stdout = <<>>
    /\ runs = <<>>
    /\ pc = "unused" /\ snap_size = <<0, 0>> /\ naip_size = <<>>
    /\ exists = {} /\ idx = 1 /\ passed = {} /\ projected = {}
    /\ stdout = <<>> /\ exit_code = 0
    /\ ObIdle
    /\ GapIdle
    /\ PostIdle
    /\ GtIdle

\* A stage is called and runs to its end; nothing else touches the disk.
RunStage(stage) ==
    /\ Len(runs) < MaxRuns
    /\ LET st == run_stage(stage, files, pipe_size)
       IN  /\ files' = st.files
           /\ runs' = Append(runs,
                  [stage |-> stage, before |-> files, calls |-> st.log,
                   end |-> IF st.exited THEN "exited"
                           ELSE IF st.raised THEN "raised"
                           ELSE "returned"])
    /\ UNCHANGED <<pipe_size, verbosity, pipe_pc, pipe_region, pipe_log,
                   mosaic_inputs, pipe_error, pipe_stdout>>
    /\ UNCHANGED <<snapvars, obvars, gapvars, postvars, gtvars>>

NextCache ==
    \/ RunStage("reproject")
    \/ RunStage("convert")
    \/ RunStage("clip")
    \/ RunStage("mosaic")

SpecCache == InitCache /\ [][NextCache]_vars

(***************************************************************************)
(* Claims about the files as a cache (checked under SpecCache).            *)
(***************************************************************************)

\* The file an engine call of a stage writes.
Target(e) ==
    CASE e.ev = "ProjectRaster" ->
             IF e.region = 0 THEN SnapRast ELSE <<e.region, "in_rm", e.tile>>
      [] e.ev \in {"FeatureToRaster", "Reclassify"} ->
             <<e.region, "fr", e.tile>>
      [] e.ev = "MosaicToNewRaster" -> <<e.region, "mosaic", 0>>
      [] e.ev = "ExtractByMask" ->
             IF e.stage = "clip" THEN <<e.region, "cfr", e.tile>>
             ELSE <<e.region, "canopy", 0>>

\* No engine call of a run writes a file that was on disk before the run.
NoOverwrite ==
    \A n \in 1..Len(runs) :
       \A k \in 1..Len(runs[n].calls) :
          Target(runs[n].calls[k]) \notin runs[n].before

\* C21: a file on disk is never written again, and a stage that is called a
\* second time with the disk unchanged since its first call, however the
\* first call ended, makes no engine call that writes a file.
C21_SecondRunWritesNothing ==
    /\ NoOverwrite
    /\ \A n \in 1..(Len(runs) - 1) :
          runs[n + 1].stage = runs[n].stage => runs[n + 1].calls = <<>>

\* The same for a stage whose first call returned: its second call makes no
\* engine call.
C21_NoWriteAfterCompletedRun ==
    /\ NoOverwrite
    /\ \A n \in 1..(Len(runs) - 1) :
          (runs[n + 1].stage = runs[n].stage /\ runs[n].end = "returned")
             => runs[n + 1].calls = <<>>

\* A stage that wrote files and returned has been called again.
C21_SecondRunReached ==
    \E n \in 1..(Len(runs) - 1) :
       /\ runs[n + 1].stage = runs[n].stage
       /\ runs[n].end = "returned"
       /\ runs[n].calls # <<>>

(***************************************************************************)
(* correct_inverted_canopy_tif and convert_canopy_tif_to_shp, on the       *)
(* Outputs folders of the regions: the canopy TIFF, the corrected TIFF and *)
(* the canopy shapefile of each region.  A raster is the sequence of its   *)
(* cell values.                                                            *)
(***************************************************************************)

\* Largest number of calls of the two functions.
MaxCalls == 2

\* nodata_value='3' of the 2_BIT rasters
nodata_value == 3

PixelValues == {0, 1, nodata_value}

Rasters == [{1, 2} -> PixelValues]

\* 1 - arcpy.Raster(path): cell by cell, NoData stays NoData.
OneMinus(ras) ==
    [c \in DOMAIN ras |-> IF ras[c] = nodata_value THEN nodata_value
                          ELSE 1 - ras[c]]

\* A canopy shapefile made by an earlier call.
OldShp == [source |-> "old", fields |-> {"Canopy"}]

\* RasterToPolygon_conversion(path, canopyshp_path, 'NO_SIMPLIFY', 'Value')
RasterToPolygon(source) == [source |-> source, fields |-> {"Id", "gridcode"}]

\* A loop body that inverts whatever corrected TIFF is there.
correct_region_reinvert(g, st) ==
    IF g \notin st.dirs THEN st
    ELSE IF g \notin DOMAIN st.canopy THEN st
    ELSE LET from == IF g \in DOMAIN st.corrected THEN st.corrected[g]
                     ELSE st.canopy[g]
         IN  [st EXCEPT
                !.corrected = (g :> OneMinus(from)) @@ @,
                !.log = Append(@, Event("CopyRaster", "correct", g, 0))]

\* The body of `for row in cur` in correct_inverted_canopy_tif.
correct_region(g, st) ==
    IF g \notin st.dirs THEN st
    ELSE IF g \notin DOMAIN st.canopy THEN st
    ELSE IF g \in DOMAIN st.corrected THEN st
    ELSE [st EXCEPT
            !.corrected = (g :> OneMinus(st.canopy[g])) @@ @,
            !.log = Append(@, Event("CopyRaster", "correct", g, 0))]

\* `for row in cur` of correct_inverted_canopy_tif: the cursor yields the
\* regions of inverted_phyreg_ids.
RECURSIVE correct_regions(_, _, _)
correct_regions(gs, inverted_phyreg_ids, st) ==
    IF gs = <<>> THEN st
    ELSE LET g == Head(gs)
             log == [st EXCEPT
                       !.log = Append(@, Event("region", "correct", g, 0))]
         IN  correct_regions(Tail(gs), inverted_phyreg_ids,
                 IF g \in inverted_phyreg_ids THEN correct_region(g, log)
                 ELSE st)

\* The three field steps on canopyshp_path; the engine raises when the
\* shapefile is not there.
field_steps(g, st) ==
    IF g \notin DOMAIN st.shp
    THEN [st EXCEPT !.log = Append(@, Event("AddField", "shp", g, 0)),
                    !.raised = TRUE]
    ELSE [st EXCEPT
            !.shp = [@ EXCEPT ![g] = [@ EXCEPT !.fields = {"Canopy"}]],
            !.log = @ \o <<Event("AddField", "shp", g, 0),
                           Event("CalculateField", "shp", g, 0),
                           Event("DeleteField", "shp", g, 0)>>]

\* The body of `for row in cur` in convert_canopy_tif_to_shp.
shp_region(g, st) ==
    IF g \notin st.dirs THEN st
    ELSE IF g \in DOMAIN st.shp THEN st
    ELSE IF g \in DOMAIN st.corrected
    THEN field_steps(g,
            [st EXCEPT
               !.shp = (g :> RasterToPolygon("corrected")) @@ @,
               !.log = Append(@, Event("RasterToPolygon", "corrected", g, 0))])
    ELSE IF g \in DOMAIN st.canopy
    THEN field_steps(g,
            [st EXCEPT
               !.shp = (g :> RasterToPolygon("canopy")) @@ @,
               !.log = Append(@, Event("RasterToPolygon", "canopy", g, 0))])
    ELSE field_steps(g, st)

RECURSIVE shp_regions(_, _)
shp_regions(gs, st) ==
    IF gs = <<>> \/ st.raised THEN st
    ELSE shp_regions(Tail(gs), shp_region(Head(gs), st))

InitPost ==
    /\ post_dirs \in SUBSET Regions
    /\ \E D \in SUBSET post_dirs : canopy_tif \in [D -> Rasters]
    /\ \E C \in SUBSET (DOMAIN canopy_tif) :
          corrected_tif = [g \in C |-> OneMinus(canopy_tif[g])]
    /\ \E S \in SUBSET post_dirs : canopy_shp = [g \in S |-> OldShp]
    /\ post_calls = 0 /\ post_log = <<>> /\ post_error = "none"
    /\ pc = "unused" /\ snap_size = <<0, 0>> /\ naip_size = <<>>
    /\ exists = {} /\ idx = 1 /\ passed = {} /\ projected = {}
    /\ stdout = <<>> /\ exit_code = 0
    /\ ObIdle
    /\ GapIdle
    /\ PipeIdle
    /\ CacheIdle
    /\ GtIdle

PostState(log) ==
    [dirs |-> post_dirs, canopy |-> canopy_tif, corrected |-> corrected_tif,
     shp |-> canopy_shp, log |-> log, raised |-> FALSE]

\* correct_inverted_canopy_tif(config, inverted_phyreg_ids)
CorrectInverted ==
    /\ post_calls < MaxCalls
    /\ \E inverted_phyreg_ids \in (SUBSET Regions) \ {{}} :
         LET begin == Append(post_log, Event("begin", "correct", 0, 0))
             st == correct_regions(RegionOrder, inverted_phyreg_ids,
                                   PostState(begin))
         IN  /\ corrected_tif' = st.corrected
             /\ canopy_tif' = st.canopy
             /\ post_log' = Append(st.log, Event("end", "correct", 0, 0))
    /\ post_calls' = post_calls + 1
    /\ post_error' = "none"
    /\ UNCHANGED <<post_dirs, canopy_shp>>
    /\ UNCHANGED <<snapvars, obvars, gapvars, pipevars, cachevars, gtvars>>

\* convert_canopy_tif_to_shp(config)
ConvertToShp ==
    /\ post_calls < MaxCalls
    /\ LET begin == Append(post_log, Event("begin", "shp", 0, 0))
           st == shp_regions(RegionOrder, PostState(begin))
       IN  /\ canopy_shp' = st.shp
           /\ IF st.raised
              THEN post_log' = st.log /\ post_error' = "ExecuteError"
              ELSE /\ post_log' = Append(st.log, Event("end", "shp", 0, 0))
                   /\ post_error' = "none"
    /\ post_calls' = post_calls + 1
    /\ UNCHANGED <<post_dirs, canopy_tif, corrected_tif>>
    /\ UNCHANGED <<snapvars, obvars, gapvars, pipevars, cachevars, gtvars>>

NextPost == CorrectInverted \/ ConvertToShp

SpecPost == InitPost /\ [][NextPost]_vars

(***************************************************************************)
(* Claims about the corrected TIFF and the canopy shapefile (checked under *)
(* SpecPost).                                                              *)
(***************************************************************************)

\* The number of times the cursor of correct_inverted_canopy_tif came to g.
CorrectCalls(g) ==
    Cardinality({ k \in 1..Len(post_log) :
                    post_log[k] = Event("region", "correct", g, 0) })

\* The state part of C22: what the corrected TIFF of a region holds once
\* the region was in inverted_phyreg_ids.
CorrectedIsInverse ==
    \A g \in Regions :
       CorrectCalls(g) >= 1 =>
          IF g \in post_dirs /\ g \in DOMAIN canopy_tif
          THEN /\ g \in DOMAIN corrected_tif
               /\ \A c \in DOMAIN canopy_tif[g] :
                     canopy_tif[g][c] \in {0, 1} =>
                        corrected_tif[g][c] = 1 - canopy_tif[g][c]
          ELSE g \notin DOMAIN corrected_tif

\* A call of correct_inverted_canopy_tif that has ended has ended without an
\* exception.
CorrectRaisedNothing ==
    (post_log # <<>> /\ post_log[Len(post_log)].stage = "correct") =>
       (post_log[Len(post_log)].ev = "end" /\ post_error = "none")

\* C22: after any number of calls of correct_inverted_canopy_tif for a region
\* with a canopy TIFF the corrected TIFF holds 1 - v for every cell value v
\* in {0, 1} of the canopy TIFF, never v again; no call changes the canopy
\* TIFF; a region without canopy TIFF or Outputs folder is skipped, the call
\* raises nothing and makes nothing for it.
C22_InvertedOnceOriginalKept ==
    /\ [](CorrectedIsInverse /\ CorrectRaisedNothing)
    /\ [][canopy_tif' = canopy_tif]_vars

\* A region with both cell values was corrected by two calls.
C22_Witness ==
    \E g \in Regions :
       /\ CorrectCalls(g) = 2
       /\ g \in DOMAIN corrected_tif
       /\ canopy_tif[g] = <<0, 1>>
       /\ corrected_tif[g] = <<1, 0>>
       /\ \E h \in Regions : CorrectCalls(h) >= 1 /\ h \notin post_dirs

\* The log entry k starts a call of convert_canopy_tif_to_shp.
ShpCallAt(log, k) == k \in 1..Len(log) /\ log[k] = Event("begin", "shp", 0, 0)

\* Every AddField follows the RasterToPolygon of the same region.
FieldStepsOnlyOnConverted ==
    \A k \in 1..Len(post_log) :
       post_log[k].ev = "AddField" =>
          /\ k > 1
          /\ post_log[k - 1].ev = "RasterToPolygon"
          /\ post_log[k - 1].region = post_log[k].region

\* A call of convert_canopy_tif_to_shp builds the missing shapefiles from
\* the corrected TIFF, else from the canopy TIFF, and keeps the others.
ShpBuiltFromRightTif ==
    ShpCallAt(post_log', Len(post_log) + 1) =>
       /\ \A g \in post_dirs \ DOMAIN canopy_shp :
             /\ g \in DOMAIN corrected_tif =>
                   /\ g \in DOMAIN canopy_shp'
                   /\ canopy_shp'[g] =
                         [source |-> "corrected", fields |-> {"Canopy"}]
             /\ (g \notin DOMAIN corrected_tif /\ g \in DOMAIN canopy_tif) =>
                   /\ g \in DOMAIN canopy_shp'
                   /\ canopy_shp'[g] =
                         [source |-> "canopy", fields |-> {"Canopy"}]
       /\ \A g \in DOMAIN canopy_shp :
             g \in DOMAIN canopy_shp' /\ canopy_shp'[g] = canopy_shp[g]

\* C23: for every selected region with an Outputs folder and no canopy
\* shapefile, convert_canopy_tif_to_shp builds the shapefile from the
\* corrected TIFF when there is one and else from the canopy TIFF; the field
\* steps (AddField, CalculateField, DeleteField) are applied only to a
\* shapefile such a conversion produced; an existing shapefile is kept.
C23_ShapefileFromTifFieldsOnConverted ==
    /\ []FieldStepsOnlyOnConverted
    /\ [][ShpBuiltFromRightTif]_vars

\* The field steps were called for a region that has neither TIFF, so that
\* no shapefile was made for them to work on.
C23_FieldStepsWithoutShapefile ==
    \E k \in 1..Len(post_log) :
       /\ post_log[k].ev = "AddField"
       /\ post_log[k - 1].ev \in {"begin", "DeleteField"}
       /\ post_log[k].region \in post_dirs
       /\ post_log[k].region \notin DOMAIN canopy_tif
       /\ post_log[k].region \notin DOMAIN corrected_tif
       /\ post_log[k].region \notin DOMAIN canopy_shp
       /\ post_error = "ExecuteError"

(***************************************************************************)
(* generate_gtpoints and update_gtpoints, for one region of the cursor on  *)
(* phyregs_layer.  Areas and point counts are integers, coordinates are    *)
(* whole numbers of thirds of a cell; the clipped tile of the points is a  *)
(* raster of 2 x 2 cells.                                                   *)
(***************************************************************************)

\* Largest min_points / max_points, and number of old points.
MaxPoints == 2

\* Largest min_area_sqkm / max_area_sqkm.
MaxArea == 2

\* int(n / d) for d > 0: Python's int() truncates toward zero.
int(n, d) == IF n >= 0 THEN n \div d ELSE -((-n) \div d)

\* ras.extent and (ras.meanCellWidth, ras.meanCellHeight)
rast_ext == [XMin |-> 0, YMax |-> 6]

rast_res == <<3, 3>>

\* The indices of ras_a.
RasterCells == (0..1) \X (0..1)

\* SHAPE@XY of a point inside a cell of the raster.
PointXY == {1, 2, 4, 5} \X {1, 2, 4, 5}

\* __calculate_row_column(xy, rast_ext, rast_res)
calculate_row_column(xy, ext, res) ==
    LET x == xy[1]
        y == xy[2]
        w == res[1]
        h == res[2]
        row == int(ext.YMax - y, h)
        col == int(x - ext.XMin, w)
    IN  <<row, col>>

\* `if min > max: swap`, for the areas and for the points.
fix_user_errors(a) ==
    LET b == IF a.min_area_sqkm > a.max_area_sqkm
             THEN [a EXCEPT !.min_area_sqkm = a.max_area_sqkm,
                            !.max_area_sqkm = a.min_area_sqkm]
             ELSE a
    IN  IF b.min_points > b.max_points
        THEN [b EXCEPT !.min_points = b.max_points,
                       !.max_points = b.min_points]
        ELSE b

\* int(min_points + (max_points - min_points) /
\*     (max_area_sqkm - min_area_sqkm) * (area_sqkm - min_area_sqkm) + 1),
\* for max_area_sqkm > min_area_sqkm.
raw_point_count(a, area) ==
    LET da == a.max_area_sqkm - a.min_area_sqkm
    IN  int((a.min_points + 1) * da
               + (a.max_points - a.min_points) * (area - a.min_area_sqkm),
            da)

\* The two tests that follow 'Raw point count'.
final_point_count(a, raw) ==
    IF raw < a.min_points THEN a.min_points
    ELSE IF raw > a.max_points THEN a.max_points
    ELSE raw

\* How the row and column of a point are asked for: generate_gtpoints asks
\* the Config object, which has no such attribute; update_gtpoints calls
\* the function of the module.
row_column_of(fn, xy) ==
    IF fn = "generate" THEN <<"AttributeError">>
    ELSE <<"rc", calculate_row_column(xy, rast_ext, rast_res)>>

\* The cursor whose updateRow is called: cur is the SearchCursor on
\* phyregs_layer, cur2 the UpdateCursor on the points.
update_cursor(fn, inv) ==
    IF fn = "generate" /\ ~inv THEN "cur" ELSE "cur2"

GtArgs ==
    [min_area_sqkm : 1..MaxArea, max_area_sqkm : 1..MaxArea,
     min_points : 0..MaxPoints, max_points : 0..MaxPoints]

InitPoints ==
    /\ gt_fn \in {"generate", "update"}
    /\ IF gt_fn = "generate"
       THEN /\ gt_args \in GtArgs
            /\ area_sqkm \in 0..(MaxArea + 1)
            /\ gt_todo = 0
       ELSE /\ gt_args = <<>>
            /\ area_sqkm = 0
            /\ gt_todo \in 0..MaxPoints
    /\ inverted \in BOOLEAN
    /\ ras_a \in [RasterCells -> {0, 1}]
    /\ gt_pc = "called" /\ point_count = <<>> /\ gt_points = <<>>
    /\ gt_error = "none"
    /\ pc = "unused" /\ snap_size = <<0, 0>> /\ naip_size = <<>>
    /\ exists = {} /\ idx = 1 /\ passed = {} /\ projected = {}
    /\ stdout = <<>> /\ exit_code = 0
    /\ ObIdle
    /\ GapIdle
    /\ PipeIdle
    /\ CacheIdle
    /\ PostIdle

\* generate_gtpoints: 'fix user errors, if any'.
GtFixArgs ==
    /\ gt_fn = "generate" /\ gt_pc = "called"
    /\ gt_args' = fix_user_errors(gt_args)
    /\ gt_pc' = "count"
    /\ UNCHANGED <<gt_fn, area_sqkm, inverted, ras_a, point_count, gt_points,
                   gt_todo, gt_error>>
    /\ UNCHANGED <<snapvars, obvars, gapvars, pipevars, cachevars, postvars>>

\* generate_gtpoints: the point count of the region.
GtPointCount ==
    /\ gt_pc = "count"
    /\ IF gt_args.max_area_sqkm - gt_args.min_area_sqkm = 0
       THEN /\ gt_pc' = "raised"
            /\ gt_error' = "ZeroDivisionError"
            /\ UNCHANGED point_count
       ELSE /\ point_count' =
                  <<final_point_count(gt_args,
                                      raw_point_count(gt_args, area_sqkm))>>
            /\ gt_pc' = "create"
            /\ UNCHANGED gt_error
    /\ UNCHANGED <<gt_fn, gt_args, area_sqkm, inverted, ras_a, gt_points,
                   gt_todo>>
    /\ UNCHANGED <<snapvars, obvars, gapvars, pipevars, cachevars, postvars>>

\* generate_gtpoints: CreateRandomPoints, AddField 'GT', SpatialJoin.
GtCreatePoints ==
    /\ gt_pc = "create"
    /\ gt_todo' = point_count[1]
    /\ gt_pc' = "points"
    /\ UNCHANGED <<gt_fn, gt_args, area_sqkm, inverted, ras_a, point_count,
                   gt_points, gt_error>>
    /\ UNCHANGED <<snapvars, obvars, gapvars, pipevars, cachevars, postvars>>

\* update_gtpoints: CopyFeatures, AddField 'GT_<year>', SpatialJoin.
GtCopyPoints ==
    /\ gt_fn = "update" /\ gt_pc = "called"
    /\ gt_pc' = "points"
    /\ UNCHANGED <<gt_fn, gt_args, area_sqkm, inverted, ras_a, point_count,
                   gt_points, gt_todo, gt_error>>
    /\ UNCHANGED <<snapvars, obvars, gapvars, pipevars, cachevars, postvars>>

\* One iteration of `for row2 in cur2`, in either function.
GtPoint ==
    /\ gt_pc = "points" /\ gt_todo > 0
    /\ \E xy \in PointXY :
         LET rc == row_column_of(gt_fn, xy)
             v == ras_a[rc[2]]
             gt == IF inverted THEN 1 - v ELSE v
         IN  IF rc[1] = "AttributeError"
                \/ update_cursor(gt_fn, inverted) = "cur"
             THEN /\ gt_pc' = "raised"
                  /\ gt_error' = "AttributeError"
                  /\ UNCHANGED <<gt_points, gt_todo>>
             ELSE /\ gt_points' =
                        Append(gt_points,
                               [xy |-> xy, gt |-> <<gt>>, written |-> TRUE])
                  /\ gt_todo' = gt_todo - 1
                  /\ UNCHANGED <<gt_pc, gt_error>>
    /\ UNCHANGED <<gt_fn, gt_args, area_sqkm, inverted, ras_a, point_count>>
    /\ UNCHANGED <<snapvars, obvars, gapvars, pipevars, cachevars, postvars>>

\* The cursor on the points is exhausted: the extra fields are deleted.
GtFinish ==
    /\ gt_pc = "points" /\ gt_todo = 0
    /\ gt_pc' = "done"
    /\ UNCHANGED <<gt_fn, gt_args, area_sqkm, inverted, ras_a, point_count,
                   gt_points, gt_todo, gt_error>>
    /\ UNCHANGED <<snapvars, obvars, gapvars, pipevars, cachevars, postvars>>

NextPoints ==
    \/ GtFixArgs \/ GtPointCount \/ GtCreatePoints \/ GtCopyPoints
    \/ GtPoint \/ GtFinish

SpecPoints == InitPoints /\ [][NextPoints]_vars

(***************************************************************************)
(* Claims about the ground-truth points (checked under SpecPoints).        *)
(***************************************************************************)

\* The smaller and the larger of min_points and max_points.
LeastPoints ==
    IF gt_args.min_points <= gt_args.max_points THEN gt_args.min_points
    ELSE gt_args.max_points

MostPoints ==
    IF gt_args.min_points <= gt_args.max_points THEN gt_args.max_points
    ELSE gt_args.min_points

\* C24: in generate_gtpoints, whatever the arguments (min and max in either
\* order) and the area of the region, the point count is computed without
\* an error and the final count lies between the smaller and the larger of
\* min_points and max_points.
C24_CountWithinRangeNoError ==
    (gt_fn = "generate" /\ gt_pc \notin {"called", "count"}) =>
       /\ gt_error # "ZeroDivisionError"
       /\ point_count # <<>>
       /\ LeastPoints <= point_count[1]
       /\ point_count[1] <= MostPoints

\* Whenever a final count is computed it lies in the range.
C24_CountWithinRange ==
    point_count # <<>> =>
       (LeastPoints <= point_count[1] /\ point_count[1] <= MostPoints)

\* The computation ended in a division by zero: the two areas are equal.
C24_DivisionByZero ==
    /\ gt_fn = "generate" /\ gt_pc = "raised"
    /\ gt_error = "ZeroDivisionError"
    /\ gt_args.min_area_sqkm = gt_args.max_area_sqkm
    /\ point_count = <<>>

\* The cell of the raster that holds the point xy.
CellOf(xy) ==
    CHOOSE rc \in RasterCells :
       /\ rast_ext.XMin + rc[2] * rast_res[1] < xy[1]
       /\ xy[1] < rast_ext.XMin + (rc[2] + 1) * rast_res[1]
       /\ rast_ext.YMax - (rc[1] + 1) * rast_res[2] < xy[2]
       /\ xy[2] < rast_ext.YMax - rc[1] * rast_res[2]

\* The GT value of a point as the claim has it.
ExpectedGT(xy) == IF inverted THEN 1 - ras_a[CellOf(xy)] ELSE ras_a[CellOf(xy)]

\* The call on the region is over.
GtEnded == gt_pc \in {"done", "raised"} /\ gt_error # "ZeroDivisionError"

\* C25: in generate_gtpoints and in update_gtpoints, when the region has
\* been processed every point has its GT field set to the raster value v at
\* its cell (1 - v for an inverted region), and the row was written to the
\* point shapefile, inverted region or not.
C25_EveryPointGetsItsValue ==
    GtEnded =>
       /\ gt_todo = 0
       /\ \A k \in 1..Len(gt_points) :
             /\ gt_points[k].gt = <<ExpectedGT(gt_points[k].xy)>>
             /\ gt_points[k].written

\* The same for update_gtpoints alone.
C25_UpdateSetsEveryPoint ==
    (GtEnded /\ gt_fn = "update") =>
       /\ gt_pc = "done" /\ gt_todo = 0
       /\ \A k \in 1..Len(gt_points) :
             /\ gt_points[k].gt = <<ExpectedGT(gt_points[k].xy)>>
             /\ gt_points[k].written

\* generate_gtpoints ended at its first point, which has no GT value.
C25_GenerateStopsAtFirstPoint ==
    /\ gt_fn = "generate" /\ gt_pc = "raised"
    /\ gt_error = "AttributeError"
    /\ gt_todo = point_count[1] /\ gt_todo >= 1
    /\ gt_points = <<>>

====
